---- MODULE Spec2Model ----
(***************************************************************************)
(* Deterministic arm/disarm report processor (processDeterministic).       *)
(*                                                                         *)
(* Strings are sequences of one-character strings.  Instants are whole     *)
(* seconds counted from local midnight of 30/10/2025 (day 0); the host     *)
(* zone is taken to be at or behind UTC without daylight saving, so the    *)
(* ISO date of a local midnight is the local calendar date.                *)
(***************************************************************************)
EXTENDS Integers, Sequences, FiniteSets, TLC

(***************************************************************************)
(* Characters and strings                                                  *)
(***************************************************************************)

\* UTF-16 code unit of each character the model uses (String.charCodeAt)
CharCode ==
  [c \in {" ", "(", ")", "-", ".", "/", ":"} |->
      CASE c = " " -> 32 [] c = "(" -> 40 [] c = ")" -> 41 [] c = "-" -> 45
        [] c = "." -> 46 [] c = "/" -> 47 [] c = ":" -> 58]
  @@ [c \in {"0","1","2","3","4","5","6","7","8","9"} |->
      CASE c = "0" -> 48 [] c = "1" -> 49 [] c = "2" -> 50 [] c = "3" -> 51
        [] c = "4" -> 52 [] c = "5" -> 53 [] c = "6" -> 54 [] c = "7" -> 55
        [] c = "8" -> 56 [] c = "9" -> 57]
  @@ [c \in {"A","B","C","D","E","F","G","H","I","J","K","L","M",
             "N","O","P","Q","R","S","T","U","V","W","X","Y","Z"} |->
      CASE c = "A" -> 65 [] c = "B" -> 66 [] c = "C" -> 67 [] c = "D" -> 68
        [] c = "E" -> 69 [] c = "F" -> 70 [] c = "G" -> 71 [] c = "H" -> 72
        [] c = "I" -> 73 [] c = "J" -> 74 [] c = "K" -> 75 [] c = "L" -> 76
        [] c = "M" -> 77 [] c = "N" -> 78 [] c = "O" -> 79 [] c = "P" -> 80
        [] c = "Q" -> 81 [] c = "R" -> 82 [] c = "S" -> 83 [] c = "T" -> 84
        [] c = "U" -> 85 [] c = "V" -> 86 [] c = "W" -> 87 [] c = "X" -> 88
        [] c = "Y" -> 89 [] c = "Z" -> 90]
  @@ [c \in {"a","j","l","o","Á","Ó","á","ó"} |->
      CASE c = "a" -> 97 [] c = "j" -> 106 [] c = "l" -> 108 [] c = "o" -> 111
        [] c = "Á" -> 193 [] c = "Ó" -> 211 [] c = "á" -> 225 [] c = "ó" -> 243]

Digits == {"0","1","2","3","4","5","6","7","8","9"}

\* value of a decimal digit character
DigitVal(c) == CharCode[c] - 48

\* the decimal digit character of n in 0..9
DigitChar(n) == CHOOSE c \in Digits : DigitVal(c) = n

\* String.prototype.toUpperCase, one character
UpperChar(c) ==
  CASE c = "a" -> "A" [] c = "j" -> "J" [] c = "l" -> "L" [] c = "o" -> "O"
    [] c = "á" -> "Á" [] c = "ó" -> "Ó" [] OTHER -> c

\* String.prototype.toUpperCase
ToUpperCase(s) == [i \in 1..Len(s) |-> UpperChar(s[i])]

\* the regular expression class \s restricted to the model's characters
IsSpace(c) == c = " "

\* the regular expression class \d
IsDigit(c) == c \in Digits

\* s has sub at position i (1-based)
MatchAt(s, sub, i) ==
  /\ i >= 1
  /\ i + Len(sub) - 1 <= Len(s)
  /\ \A k \in 1..Len(sub) : s[i + k - 1] = sub[k]

\* String.prototype.includes
Includes(s, sub) == \E i \in 1..(Len(s) + 1) : MatchAt(s, sub, i)

\* String.prototype.trim
Trim(s) ==
  LET keep == {i \in 1..Len(s) : ~IsSpace(s[i])}
  IN  IF keep = {} THEN <<>>
      ELSE LET lo == CHOOSE i \in keep : \A j \in keep : i <= j
               hi == CHOOSE i \in keep : \A j \in keep : j <= i
           IN  SubSeq(s, lo, hi)

\* /^\d+$/.test(s)
IsNumeric(s) == Len(s) > 0 /\ \A i \in 1..Len(s) : IsDigit(s[i])

\* parseInt of a string of digits
RECURSIVE ParseInt(_)
ParseInt(s) ==
  IF Len(s) = 0 THEN 0
  ELSE 10 * ParseInt(SubSeq(s, 1, Len(s) - 1)) + DigitVal(s[Len(s)])

\* String(n).padStart(2, '0') for n in 0..99
Pad2(n) == <<DigitChar(n \div 10), DigitChar(n % 10)>>

\* String(n) for a four-digit year
Str4(n) ==
  <<DigitChar(n \div 1000), DigitChar((n \div 100) % 10),
    DigitChar((n \div 10) % 10), DigitChar(n % 10)>>

(***************************************************************************)
(* Calendar: local dates of the days the model covers                      *)
(***************************************************************************)

DaySeconds == 86400

\* <<day of month, month, year>> of day index d (Date getDate/getMonth+1/getFullYear)
Calendar ==
  <<  <<30, 10, 2025>>, <<31, 10, 2025>>, <<1, 11, 2025>>, <<2, 11, 2025>>,
      <<3, 11, 2025>>, <<4, 11, 2025>>, <<5, 11, 2025>> >>

\* calendar fields of day index d
Dmy(d) == Calendar[d + 1]

\* day index of a calendar date (the Date constructor on year, month, day)
DayIndex(dd, mm, yyyy) ==
  CHOOSE d \in 0..(Len(Calendar) - 1) : Dmy(d) = <<dd, mm, yyyy>>

\* Date.getHours / getMinutes / getSeconds and the local day of an instant
DayOf(t) == t \div DaySeconds
HourOf(t) == (t % DaySeconds) \div 3600
MinuteOf(t) == (t % 3600) \div 60
SecondOf(t) == t % 60

\* new Date(year, month, date) of the instant's fields: local midnight
getDateOnly(t) == DayOf(t) * DaySeconds

\* new Date(y, m, d, hour, minute, second) on day index d
MakeDate(d, hour, minute, second) ==
  d * DaySeconds + hour * 3600 + minute * 60 + second

\* dateKey.toISOString().split('T')[0]
IsoDate(d) ==
  Str4(Dmy(d)[3]) \o <<"-">> \o Pad2(Dmy(d)[2]) \o <<"-">> \o Pad2(Dmy(d)[1])

(***************************************************************************)
(* Time windows and deterministic synthesis                                *)
(***************************************************************************)

OPEN_MIN == [hour |-> 5, minute |-> 30]
OPEN_MAX == [hour |-> 8, minute |-> 30]
CLOSE_START == [hour |-> 22, minute |-> 30]
CLOSE_END == [hour |-> 1, minute |-> 30]

timeToSeconds(hour, minute, second) == hour * 3600 + minute * 60 + second

secondsToTime(seconds) ==
  LET s == seconds % (24 * 3600)
  IN  [hour |-> s \div 3600, minute |-> (s % 3600) \div 60, second |-> s % 60]

\* The string hash of randomTimeBetween as a 32-bit two's-complement word,
\* kept as two 16-bit halves <<high, low>>:  hash = ((hash << 5) - hash) + char
RECURSIVE HashWord(_)
HashWord(s) ==
  IF Len(s) = 0 THEN <<0, 0>>
  ELSE LET h  == HashWord(SubSeq(s, 1, Len(s) - 1))
           lo == h[2] * 31 + CharCode[s[Len(s)]]
           hi == h[1] * 31 + (lo \div 65536)
       IN  <<hi % 65536, lo % 65536>>

LcgModulus == 233280
LcgMultiplier == 9301
LcgIncrement == 49297

\* (a * 65536) % LcgModulus without leaving 32 bits
Shift16Mod(a) == ((((a * 256) % LcgModulus) * 256) % LcgModulus)

\* Math.abs(hash) % 233280, the only part of the seed the generator reads
SeedResidue(s) ==
  LET h == HashWord(s)
  IN  IF h[1] < 32768
      THEN (h[1] * 65536 + h[2]) % LcgModulus
      ELSE (Shift16Mod(65536 - h[1]) + LcgModulus - (h[2] % LcgModulus))
              % LcgModulus

\* first value of next(): rnd = (rnd * 9301 + 49297) % 233280
LcgNext(seedResidue) ==
  (((seedResidue * 9000) % LcgModulus) + ((seedResidue * (LcgMultiplier - 9000)) % LcgModulus)
     + LcgIncrement) % LcgModulus

\* Math.floor((rnd / 233280) * n) for n = 2 * half + 1
ScaleFloor(rnd, half) ==
  LET a == rnd * half
  IN  2 * (a \div LcgModulus) + ((2 * (a % LcgModulus) + rnd) \div LcgModulus)

\* randomTimeBetween from the first value rnd of its generator on
TimeFromRnd(rnd, startHour, startMinute, endHour, endMinute) ==
  LET startSeconds == timeToSeconds(startHour, startMinute, 0)
      endSeconds   == timeToSeconds(endHour, endMinute, 0)
  IN  IF endSeconds >= startSeconds
      THEN LET range == endSeconds - startSeconds
           IN  secondsToTime(startSeconds + ScaleFloor(rnd, range \div 2))
      ELSE LET range1 == 24 * 3600 - startSeconds
               range2 == endSeconds + 1
               total  == range1 + range2
               pick   == ScaleFloor(rnd, (total - 1) \div 2)
           IN  IF pick < range1
               THEN secondsToTime(startSeconds + pick)
               ELSE secondsToTime(pick - range1)

randomTimeBetween(seedKey, startHour, startMinute, endHour, endMinute) ==
  TimeFromRnd(LcgNext(SeedResidue(seedKey)), startHour, startMinute, endHour, endMinute)

\* a window test that accepts no DESARME
isInOpenWindow_Never(t) == FALSE

isInOpenWindow(t) ==
  LET timeSeconds == timeToSeconds(HourOf(t), MinuteOf(t), 0)
      minSeconds  == timeToSeconds(OPEN_MIN.hour, OPEN_MIN.minute, 0)
      maxSeconds  == timeToSeconds(OPEN_MAX.hour, OPEN_MAX.minute, 0)
  IN  timeSeconds >= minSeconds /\ timeSeconds <= maxSeconds

S_OPEN == <<"O","P","E","N","-">>
S_CLOSE == <<"C","L","O","S","E","-">>

\* a seed key without the date
SeedKey_NoDate(kind, filial, d) == kind \o filial

\* `OPEN-${filial}-${iso date}` and `CLOSE-${filial}-${iso date}`
SeedKey(kind, filial, d) == kind \o filial \o <<"-">> \o IsoDate(d)

\* the synthesized opening of (filial, day d)
SynthOpen(filial, d) ==
  LET r == randomTimeBetween(SeedKey(S_OPEN, filial, d),
             OPEN_MIN.hour, OPEN_MIN.minute, OPEN_MAX.hour, OPEN_MAX.minute)
  IN  MakeDate(d, r.hour, r.minute, r.second)

\* a generated closing time put on the date of day d whatever its hour
FechamentoAt_SameDate(randomTime, d) ==
  MakeDate(d, randomTime.hour, randomTime.minute, randomTime.second)

\* the instant of a generated closing time: early-morning times go to d + 1
FechamentoAt(randomTime, d) ==
  IF randomTime.hour = 0 \/ (randomTime.hour = 1 /\ randomTime.minute <= 30)
  THEN MakeDate(d + 1, randomTime.hour, randomTime.minute, randomTime.second)
  ELSE MakeDate(d, randomTime.hour, randomTime.minute, randomTime.second)

\* the synthesized closing of (filial, day d)
SynthClose(filial, d) ==
  FechamentoAt(randomTimeBetween(SeedKey(S_CLOSE, filial, d),
                 CLOSE_START.hour, CLOSE_START.minute, CLOSE_END.hour, CLOSE_END.minute),
               d)

(***************************************************************************)
(* Raw rows                                                                *)
(*                                                                         *)
(* A raw row is [conta, data, codigo, descricao, usuario]: the columns     *)
(* 'Conta', 'Data de recebimento', 'Código do evento', 'Descrição' and     *)
(* 'Usuário' (the empty string stands for a missing cell).  The cell       *)
(* 'Data de recebimento' is [tag, v]: a native Date (tag "Date", v the     *)
(* instant), a text dd/mm/yyyy HH:mm:ss (tag "Text", v its six numbers)    *)
(* or something no parser accepts (tag "Bad").                             *)
(***************************************************************************)

Null == -1

DateCell(t) == [tag |-> "Date", v |-> <<t>>]
BadCell == [tag |-> "Bad", v |-> <<>>]

\* formatDateTime: the six numeric fields of `dd/mm/yyyy HH:mm:ss`
formatDateTime(t) ==
  <<Dmy(DayOf(t))[1], Dmy(DayOf(t))[2], Dmy(DayOf(t))[3],
    HourOf(t), MinuteOf(t), SecondOf(t)>>

TextCell(t) == [tag |-> "Text", v |-> formatDateTime(t)]

\* parseTimestamp of a formatted text: new Date(year, month - 1, day, h, m, s)
ParseText(f) == MakeDate(DayIndex(f[1], f[2], f[3]), f[4], f[5], f[6])

parseTimestamp(cell) ==
  CASE cell.tag = "Date" -> cell.v[1]
    [] cell.tag = "Text" -> ParseText(cell.v)
    [] OTHER -> Null

S_DESARM == <<"D","E","S","A","R","M">>
S_ARM == <<"A","R","M">>
EventCodeDisarmed == 1401
EventCodeArmed == 3401

\* a classification that reads the description before the event code
ClassifyBy_DescriptionFirst(codigo, descricao) ==
  IF Includes(descricao, S_DESARM) THEN "DESARME"
  ELSE IF Includes(descricao, S_ARM) THEN "ARME"
  ELSE IF codigo = EventCodeDisarmed THEN "DESARME"
  ELSE IF codigo = EventCodeArmed THEN "ARME"
  ELSE "OTHER"

ClassifyBy(codigo, descricao) ==
  IF codigo = EventCodeDisarmed THEN "DESARME"
  ELSE IF codigo = EventCodeArmed THEN "ARME"
  ELSE IF Includes(descricao, S_DESARM) THEN "DESARME"
  ELSE IF Includes(descricao, S_ARM) /\ ~Includes(descricao, S_DESARM) THEN "ARME"
  ELSE "OTHER"

classifyEvent(row) == ClassifyBy(row.codigo, ToUpperCase(row.descricao))

S_LOJA == <<"L","O","J","A">>
S_ESCRITORIO == <<"E","S","C","R","I","T","Ó","R","I","O">>
S_INDEFINIDO == <<"I","N","D","E","F","I","N","I","D","O">>

\* index of the first character at or after i that is not a space
RECURSIVE SkipSpaces(_, _)
SkipSpaces(s, i) ==
  IF i <= Len(s) /\ IsSpace(s[i]) THEN SkipSpaces(s, i + 1) ELSE i

\* index of the first character at or after i that is not a digit
RECURSIVE SkipDigits(_, _)
SkipDigits(s, i) ==
  IF i <= Len(s) /\ IsDigit(s[i]) THEN SkipDigits(s, i + 1) ELSE i

\* positions where /LOJA\s*(\d+)/ matches
LojaMatches(s) ==
  {i \in 1..Len(s) :
      /\ MatchAt(s, S_LOJA, i)
      /\ LET j == SkipSpaces(s, i + 4) IN j <= Len(s) /\ IsDigit(s[j])}

\* capture group 1 of the match of /LOJA\s*(\d+)/ at position i
LojaDigitsAt(s, j) == SubSeq(s, j, SkipDigits(s, j) - 1)
LojaDigits(s, matches) ==
  LojaDigitsAt(s, SkipSpaces(s, (CHOOSE k \in matches : \A m \in matches : k <= m) + 4))

\* contaStr.replace(/\s*\(LOJA\s*\d+\)\s*/gi, ''): such a parenthesis holds a
\* match of /LOJA\s*(\d+)/, so where this is evaluated there is none to remove
StripLojaParen(s, matches) == IF matches = {} THEN s ELSE <<>>

FilialOr(resultado, contaStr) == IF Len(resultado) > 0 THEN resultado ELSE contaStr

FilialFrom(contaStr, contaStrUpper, matches) ==
  IF matches # {} THEN LojaDigits(contaStrUpper, matches)
  ELSE IF Includes(contaStrUpper, S_ESCRITORIO) THEN S_ESCRITORIO
  ELSE FilialOr(Trim(StripLojaParen(contaStr, matches)), contaStr)

FilialOfTrimmed(contaStr, contaStrUpper) ==
  FilialFrom(contaStr, contaStrUpper, LojaMatches(contaStrUpper))

FilialOf(contaStr) == FilialOfTrimmed(contaStr, ToUpperCase(contaStr))

extractFilial(conta) ==
  IF Len(conta) = 0 THEN S_INDEFINIDO ELSE FilialOf(Trim(conta))

S_ARME_REMOTO == <<"A","R","M","E"," ","R","E","M","O","T","O">>
S_ARMADO_REMOTO == <<"A","R","M","A","D","O"," ","R","E","M","O","T","O">>
S_SR == <<"S","R",".">>
S_SRA == <<"S","R","A",".">>
S_USUARIO == <<"U","S","U","A","R","I","O">>
S_USUARIO_ACENTO == <<"U","S","U","Á","R","I","O">>

\* s without its first n characters
Drop(s, n) == SubSeq(s, n + 1, Len(s))

\* s.replace(/^(SR\.|SRA\.)\s+/i, '')
StripHonorific(s) ==
  LET u == ToUpperCase(s)
      n == IF MatchAt(u, S_SR, 1) THEN 3 ELSE IF MatchAt(u, S_SRA, 1) THEN 4 ELSE 0
  IN  IF n > 0 /\ n < Len(s) /\ IsSpace(s[n + 1])
      THEN Drop(s, SkipSpaces(s, n + 1) - 1)
      ELSE s

\* s.replace(/[-]+.*$/, ''): cut at the first dash
CutAtDash(s) ==
  LET dashes == {i \in 1..Len(s) : s[i] = "-"}
  IN  IF dashes = {} THEN s
      ELSE SubSeq(s, 1, (CHOOSE i \in dashes : \A j \in dashes : i <= j) - 1)

\* /^(SR\.|SRA\.)$/i.test(s)
IsBareHonorific(s) == ToUpperCase(s) \in {S_SR, S_SRA}

\* the end of cleanOperadorName: empty for nothing or a bare honorific
NameOrEmpty(cleaned) ==
  IF Len(cleaned) = 0 \/ IsBareHonorific(cleaned) THEN <<>> ELSE cleaned

CleanTrimmed(cleaned) ==
  IF Len(cleaned) = 0 \/ IsBareHonorific(cleaned) THEN <<>>
  ELSE NameOrEmpty(Trim(CutAtDash(Trim(StripHonorific(cleaned)))))

\* cleanOperadorName for names that do not begin with PELO/POR USUARIO
cleanOperadorName(nome) == CleanTrimmed(Trim(nome))

\* the least element of a non-empty set of positions
FirstOf(S) == CHOOSE k \in S : \A m \in S : k <= m

\* the name once the separators and the honorific are gone: up to the first
\* dash or digit, cleaned; names shorter than 2 are refused
NomeUntilStop(rest) ==
  LET stop == {k \in 1..Len(rest) : rest[k] = "-" \/ IsDigit(rest[k])}
  IN  IF stop = {} THEN rest ELSE SubSeq(rest, 1, FirstOf(stop) - 1)

NomeLimpo(nome, limpo) ==
  IF Len(Trim(nome)) >= 2 /\ Len(limpo) >= 2 THEN limpo ELSE <<>>

NomeChecked(nome) == NomeLimpo(nome, cleanOperadorName(nome))

\* the end of the run of dashes and spaces that starts at position i
RECURSIVE SkipSeparators(_, _)
SkipSeparators(u, i) ==
  IF i <= Len(u) /\ u[i] \in {" ", "-"} THEN SkipSeparators(u, i + 1) ELSE i

\* s with upper-case form u, where USUARIO/USUÁRIO and a separator begin at hits
NomeAt(s, u, hits) ==
  IF hits = {} THEN <<>>
  ELSE NomeChecked(NomeUntilStop(StripHonorific(
         Drop(s, SkipSeparators(u, FirstOf(hits) + 7) - 1))))

UsuarioHits(u) ==
  {i \in 1..Len(u) :
     /\ MatchAt(u, S_USUARIO, i) \/ MatchAt(u, S_USUARIO_ACENTO, i)
     /\ i + 7 <= Len(u)
     /\ u[i + 7] \in {" ", "-"}}

NomeIn(s) == NomeAt(s, ToUpperCase(s), UsuarioHits(ToUpperCase(s)))

\* The description patterns of getOperadorOriginal: the text that follows
\* USUARIO/USUÁRIO, at least one dash or space and an optional SR./SRA.,
\* up to the first dash, digit or the end; names shorter than 2 are refused.
DescricaoNome(descricao) == NomeIn(Trim(descricao))

\* an extractor that reads the user column before the description
OperadorFrom_UsuarioFirst(row, descricao, usuario) ==
  IF Len(usuario) > 0 THEN cleanOperadorName(usuario)
  ELSE IF Includes(descricao, S_ARME_REMOTO) \/ Includes(descricao, S_ARMADO_REMOTO)
  THEN S_ARME_REMOTO
  ELSE DescricaoNome(row.descricao)

OperadorFrom(row, descricao, usuario) ==
  IF Includes(descricao, S_ARME_REMOTO) \/ Includes(descricao, S_ARMADO_REMOTO)
  THEN S_ARME_REMOTO
  ELSE IF Len(usuario) > 0 THEN cleanOperadorName(usuario)
  ELSE DescricaoNome(row.descricao)

getOperadorOriginal(row) ==
  OperadorFrom(row, ToUpperCase(row.descricao), Trim(row.usuario))

\* the event pushed for a row that has a timestamp and a type
EventOf(row, timestamp, type) ==
  [timestamp |-> timestamp,
   type      |-> type,
   operador  |-> getOperadorOriginal(row),
   filial    |-> extractFilial(row.conta),
   date      |-> getDateOnly(timestamp)]

\* a step 1 that keeps the rows of type OTHER
EventsOfRow_KeepOther(row, timestamp, type) ==
  IF timestamp = Null THEN <<>> ELSE <<EventOf(row, timestamp, type)>>

\* the events of one row: none, or one
EventsOfRow(row, timestamp, type) ==
  IF timestamp = Null \/ type = "OTHER" THEN <<>>
  ELSE <<EventOf(row, timestamp, type)>>

ClassifyRow(row) == EventsOfRow(row, parseTimestamp(row.data), classifyEvent(row))

\* step 1 of processDeterministic: the classified events, in input order
RECURSIVE ClassifyRows(_)
ClassifyRows(rows) ==
  IF Len(rows) = 0 THEN <<>>
  ELSE ClassifyRows(SubSeq(rows, 1, Len(rows) - 1)) \o ClassifyRow(rows[Len(rows)])

(***************************************************************************)
(* Sorting and grouping                                                    *)
(***************************************************************************)

\* the elements of a set of integers as an ascending sequence
RECURSIVE Ascending(_)
Ascending(S) ==
  IF S = {} THEN <<>>
  ELSE LET m == CHOOSE x \in S : \A y \in S : y <= x
       IN  Append(Ascending(S \ {m}), m)

\* Array.prototype.sort with comparator Cmp, which is stable: an element comes
\* after the elements that compare lower and the equal ones that preceded it
StableSort(s, Cmp(_, _)) ==
  LET rank(i) == 1 + Cardinality({j \in 1..Len(s) :
                        \/ Cmp(s[j], s[i]) < 0
                        \/ Cmp(s[j], s[i]) = 0 /\ j < i})
  IN  [n \in 1..Len(s) |-> s[CHOOSE i \in 1..Len(s) : rank(i) = n]]

\* primary collation weight of a character: space, punctuation, digits, letters
CollationRank(c) ==
  LET u == UpperChar(c)
  IN  CASE u = " " -> 1 [] u = "-" -> 2 [] u = "/" -> 3 [] u = ":" -> 4
        [] u = "." -> 5 [] u = "(" -> 6 [] u = ")" -> 7
        [] u \in Digits -> 10 + DigitVal(u)
        [] u = "Á" -> CharCode["A"]
        [] u = "Ó" -> CharCode["O"]
        [] OTHER -> CharCode[u]

\* secondary (accent) and tertiary (case) weight of a character
CollationVariant(c) ==
  (IF UpperChar(c) \in {"Á", "Ó"} THEN 2 ELSE 0) + (IF UpperChar(c) = c THEN 1 ELSE 0)

\* lexicographic comparison of two sequences of weights: -1, 0 or 1
RECURSIVE CompareWeights(_, _)
CompareWeights(a, b) ==
  IF Len(a) = 0 /\ Len(b) = 0 THEN 0
  ELSE IF Len(a) = 0 THEN -1
  ELSE IF Len(b) = 0 THEN 1
  ELSE IF a[1] < b[1] THEN -1
  ELSE IF a[1] > b[1] THEN 1
  ELSE CompareWeights(Tail(a), Tail(b))

\* String.prototype.localeCompare on the model's characters
localeCompare(a, b) ==
  LET primary == CompareWeights([i \in 1..Len(a) |-> CollationRank(a[i])],
                                [i \in 1..Len(b) |-> CollationRank(b[i])])
  IN  IF primary # 0 THEN primary
      ELSE CompareWeights([i \in 1..Len(a) |-> CollationVariant(a[i])],
                          [i \in 1..Len(b) |-> CollationVariant(b[i])])

\* a branch comparator that compares every identifier as text
CompareFilial_AsText(filialA, filialB) == localeCompare(filialA, filialB)

\* the branch comparator: numeric first and by value, then text by collation;
\* 0 where the final sort goes on to compare openings
CompareFilial(filialA, filialB) ==
  IF IsNumeric(filialA) /\ ~IsNumeric(filialB) THEN -1
  ELSE IF ~IsNumeric(filialA) /\ IsNumeric(filialB) THEN 1
  ELSE IF IsNumeric(filialA) /\ IsNumeric(filialB)
       THEN ParseInt(filialA) - ParseInt(filialB)
  ELSE localeCompare(filialA, filialB)

\* ranges that stay at the date of the branch's first event
FilialDateRanges_FirstDate(evs) ==
  LET firsts == {i \in 1..Len(evs) : \A j \in 1..(i - 1) : evs[j].filial # evs[i].filial}
      order  == Ascending(firsts)
  IN  [n \in 1..Len(order) |->
         [filial |-> evs[order[n]].filial,
          min    |-> evs[order[n]].date,
          max    |-> evs[order[n]].date]]

\* step 2: filialDateRanges in Map insertion order, as <<filial, min, max>>
FilialDateRanges(evs) ==
  LET firsts == {i \in 1..Len(evs) : \A j \in 1..(i - 1) : evs[j].filial # evs[i].filial}
      order  == Ascending(firsts)
      dates(f) == {evs[i].date : i \in {k \in 1..Len(evs) : evs[k].filial = f}}
  IN  [n \in 1..Len(order) |->
         LET f == evs[order[n]].filial
         IN  [filial |-> f,
              min    |-> CHOOSE x \in dates(f) : \A y \in dates(f) : x <= y,
              max    |-> CHOOSE x \in dates(f) : \A y \in dates(f) : y <= x]]

\* sortedFilials: the ranges ordered by the branch comparator
CompareRange(a, b) == CompareFilial(a.filial, b.filial)
SortedFilials(evs) == StableSort(FilialDateRanges(evs), CompareRange)

(***************************************************************************)
(* One day of one branch (the body of the while loop)                      *)
(* Events are named by their index in the classified event list.           *)
(***************************************************************************)

\* a || b on strings
OrElse(a, b) == IF Len(a) > 0 THEN a ELSE b

\* !s || !s.trim()
Blank(s) == Len(s) = 0 \/ Len(Trim(s)) = 0

\* dayEvents: the branch's events whose date is day d
DayEvents(evs, filial, d) ==
  Ascending({i \in 1..Len(evs) :
               evs[i].filial = filial /\ evs[i].date = MakeDate(d, 0, 0, 0)})

\* a next-day pool that admits the whole of hour 01
NextDayEvents_WholeHour(evs, filial, d) ==
  Ascending({i \in 1..Len(evs) :
               /\ evs[i].filial = filial
               /\ getDateOnly(evs[i].timestamp) = MakeDate(d + 1, 0, 0, 0)
               /\ HourOf(evs[i].timestamp) <= 1})

\* nextDayEvents: the branch's events of day d + 1 up to 01:30 (hour and minute)
NextDayEvents(evs, filial, d) ==
  Ascending({i \in 1..Len(evs) :
               /\ evs[i].filial = filial
               /\ getDateOnly(evs[i].timestamp) = MakeDate(d + 1, 0, 0, 0)
               /\ \/ HourOf(evs[i].timestamp) = 0
                  \/ HourOf(evs[i].timestamp) = 1 /\ MinuteOf(evs[i].timestamp) <= 30})

\* the indices of idx that satisfy Keep, in order
SelectIdx(idx, Keep(_)) == SelectSeq(idx, Keep)

\* desarmes: the day's DESARME events, earliest first
Desarmes(evs, filial, d) ==
  LET IsDesarme(i) == evs[i].type = "DESARME"
      Earlier(i, j) == evs[i].timestamp - evs[j].timestamp
  IN  StableSort(SelectIdx(DayEvents(evs, filial, d), IsDesarme), Earlier)

\* the ARME events of idx not yet used, in the order of the input
UnusedArmes_InputOrder(evs, idx, used) ==
  LET IsFree(i) == evs[i].type = "ARME" /\ evs[i].timestamp \notin used
  IN  SelectIdx(idx, IsFree)

\* the ARME events of idx not yet used, most recent first
UnusedArmes(evs, idx, used) ==
  LET IsFree(i) == evs[i].type = "ARME" /\ evs[i].timestamp \notin used
      Later(i, j) == evs[j].timestamp - evs[i].timestamp
  IN  StableSort(SelectIdx(idx, IsFree), Later)

ArmesDay(evs, filial, d, used) == UnusedArmes(evs, DayEvents(evs, filial, d), used)

ArmesNextDay(evs, filial, d, used) ==
  UnusedArmes(evs, NextDayEvents(evs, filial, d), used)

\* a choice of pool that prefers the next day
Armes_NextDayFirst(armesDay, armesNextDay) ==
  IF Len(armesNextDay) > 0 THEN armesNextDay ELSE armesDay

\* armes: the same-day pool if it has any event, else the next-day pool
Armes(armesDay, armesNextDay) ==
  IF Len(armesDay) > 0 THEN armesDay ELSE armesNextDay

\* a window test that accepts a next-day ARME in hour 00 only
DentroJanela_NextDayUntilOne(t, d) ==
  IF getDateOnly(t) # MakeDate(d, 0, 0, 0)
  THEN HourOf(t) = 0
  ELSE (HourOf(t) = 22 /\ MinuteOf(t) >= 30) \/ HourOf(t) = 23

\* a window test that accepts every candidate
DentroJanela_Always(t, d) == TRUE

\* a window test that accepts the whole of hour 22 on the day itself
DentroJanela_From22(t, d) ==
  IF getDateOnly(t) # MakeDate(d, 0, 0, 0)
  THEN HourOf(t) = 0 \/ (HourOf(t) = 1 /\ MinuteOf(t) <= 30)
  ELSE HourOf(t) = 22 \/ HourOf(t) = 23

\* a window test that accepts no candidate of the next day
DentroJanela_SameDayOnly(t, d) ==
  /\ getDateOnly(t) = MakeDate(d, 0, 0, 0)
  /\ (HourOf(t) = 22 /\ MinuteOf(t) >= 30) \/ HourOf(t) = 23

\* dentroJanela: the closing candidate's time is accepted for day d
DentroJanela(t, d) ==
  LET hour == HourOf(t)
      minute == MinuteOf(t)
      isDiaSeguinte == getDateOnly(t) # MakeDate(d, 0, 0, 0)
  IN  IF isDiaSeguinte
      THEN hour = 0 \/ (hour = 1 /\ minute <= 30)
      ELSE (hour = 22 /\ minute >= 30) \/ hour = 23

\* Processar ABERTURA given desarmes
OpeningFrom(evs, desarmes, filial, d, prevAbertura, prevFechamento) ==
  LET found == Len(desarmes) > 0
      kept  == found /\ isInOpenWindow(evs[desarmes[1]].timestamp)
  IN  [time     |-> IF kept THEN evs[desarmes[1]].timestamp
                    ELSE SynthOpen(filial, d),
       operador |-> IF found THEN evs[desarmes[1]].operador
                    ELSE OrElse(prevAbertura, prevFechamento),
       event    |-> IF found THEN desarmes[1] ELSE 0,
       kept     |-> kept]

\* ABERTURA of day d before the operator fallbacks: its instant, its operator,
\* the DESARME used (0 when there is none) and whether its time was kept
OpeningOf(evs, filial, d, prevAbertura, prevFechamento) ==
  OpeningFrom(evs, Desarmes(evs, filial, d), filial, d, prevAbertura, prevFechamento)

\* a candidate that is not recorded as used
MarkUsed_Forget(used, timestamp) == used

\* usedArmes.add(lastArme.timestamp.toISOString())
MarkUsed(used, timestamp) == used \cup {timestamp}

\* Processar FECHAMENTO given armes and the name of the pool it is
ClosingFrom(evs, armes, pool, filial, d, prevAbertura, prevFechamento, used) ==
  LET found == Len(armes) > 0
      kept  == found /\ DentroJanela(evs[armes[1]].timestamp, d)
  IN  [time     |-> IF kept THEN evs[armes[1]].timestamp
                    ELSE SynthClose(filial, d),
       operador |-> IF found THEN evs[armes[1]].operador
                    ELSE OrElse(prevFechamento, prevAbertura),
       event    |-> IF found THEN armes[1] ELSE 0,
       kept     |-> kept,
       pool     |-> IF found THEN pool ELSE "none",
       used     |-> IF found THEN MarkUsed(used, evs[armes[1]].timestamp) ELSE used]

ClosingOfPools(evs, armesDay, armesNextDay, filial, d, prevAbertura, prevFechamento, used) ==
  ClosingFrom(evs, Armes(armesDay, armesNextDay),
              IF Len(armesDay) > 0 THEN "day" ELSE "next",
              filial, d, prevAbertura, prevFechamento, used)

\* FECHAMENTO of day d before the operator fallbacks, likewise, with the pool
\* the candidate came from
ClosingOf(evs, filial, d, prevAbertura, prevFechamento, used) ==
  ClosingOfPools(evs, ArmesDay(evs, filial, d, used), ArmesNextDay(evs, filial, d, used),
                 filial, d, prevAbertura, prevFechamento, used)

\* a first fallback that asks the previous closing operator first
AberturaFallback_ClosingFirst(operador, prevAbertura, prevFechamento) ==
  IF Blank(operador) THEN OrElse(prevFechamento, prevAbertura) ELSE operador

\* aberturaOperador after its first fallback (previous day's operators)
AberturaFallback(operador, prevAbertura, prevFechamento) ==
  IF Blank(operador) THEN OrElse(prevAbertura, prevFechamento) ELSE operador

\* a fallback that asks the day's opening operator before the memory
FechamentoFallback_OpeningFirst(operador, prevAbertura, prevFechamento, aberturaOperador) ==
  IF Blank(operador)
  THEN OrElse(aberturaOperador, OrElse(prevFechamento, prevAbertura))
  ELSE operador

\* fechamentoOperador after its fallbacks (previous day, then the day's opening)
FechamentoFallback(operador, prevAbertura, prevFechamento, aberturaOperador) ==
  LET first == IF Blank(operador)
               THEN OrElse(prevFechamento, OrElse(prevAbertura, aberturaOperador))
               ELSE operador
  IN  IF Blank(first) THEN aberturaOperador ELSE first

\* an opening operator left empty when the day's closing has one
AberturaFinal_Keep(aberturaOperador, fechamentoOperador) == aberturaOperador

\* aberturaOperador at the end: the day's closing operator if still empty
AberturaFinal(aberturaOperador, fechamentoOperador) ==
  IF Blank(aberturaOperador) THEN fechamentoOperador ELSE aberturaOperador

\* the equal-instant guard
GuardEqual(abertura, fechamento) ==
  IF abertura = fechamento THEN fechamento + 1 ELSE fechamento

\* a memory that keeps the first operator it was given
Remember_First(prev, operador) == IF ~Blank(prev) THEN prev ELSE operador

\* prevAberturaOperador / prevFechamentoOperador after the row
Remember(prev, operador) == IF ~Blank(operador) THEN operador ELSE prev

\* the row of the day, the carried state and the decisions taken, given the
\* opening o and the closing c
DayResult(o, c, filial, d, ufCode, prevAbertura, prevFechamento, used) ==
  LET opA1 == AberturaFallback(o.operador, prevAbertura, prevFechamento)
      opF  == FechamentoFallback(c.operador, prevAbertura, prevFechamento, opA1)
      opA  == AberturaFinal(opA1, opF)
      fech == GuardEqual(o.time, c.time)
  IN  [row  |-> [FILIAL     |-> filial,
                 UF         |-> ufCode,
                 ABERTURA   |-> formatDateTime(o.time),
                 FECHAMENTO |-> formatDateTime(fech),
                 OPERADOR_ABERTURA   |-> opA,
                 OPERADOR_FECHAMENTO |-> opF],
       prevAbertura   |-> Remember(prevAbertura, opA),
       prevFechamento |-> Remember(prevFechamento, opF),
       used           |-> c.used,
       decision |-> [filial |-> filial, day |-> d,
                     desarme |-> o.event, aberturaKept |-> o.kept,
                     arme |-> c.event, fechamentoKept |-> c.kept, pool |-> c.pool,
                     prevAbertura |-> prevAbertura,
                     prevFechamento |-> prevFechamento,
                     usedBefore |-> used]]

\* one iteration of the while loop
ResolveDay(evs, filial, d, ufCode, prevAbertura, prevFechamento, used) ==
  DayResult(OpeningOf(evs, filial, d, prevAbertura, prevFechamento),
            ClosingOf(evs, filial, d, prevAbertura, prevFechamento, used),
            filial, d, ufCode, prevAbertura, prevFechamento, used)

(***************************************************************************)
(* ensureUniqueTimestamps and the final sort                               *)
(***************************************************************************)

\* while (seen.has(t)) t += 2 seconds
RECURSIVE NextFree_ByTwo(_, _)
NextFree_ByTwo(t, seenSet) == IF t \in seenSet THEN NextFree_ByTwo(t + 2, seenSet) ELSE t

\* an opening left where it is although the instant is taken
NextFree_Stay(t, seenSet) == t

\* while (seen.has(t)) t += 1 second
RECURSIVE NextFree(_, _)
NextFree(t, seenSet) == IF t \in seenSet THEN NextFree(t + 1, seenSet) ELSE t

\* while (seen.has(t) || t === abertura) t += 1 second
RECURSIVE NextFreeClosing(_, _, _)
NextFreeClosing(t, seenSet, abertura) ==
  IF t \in seenSet \/ t = abertura
  THEN NextFreeClosing(t + 1, seenSet, abertura) ELSE t

\* a returned row whose operator fields are exchanged
UniqueResult_SwapOperators(row, seenSet, abertura, fechamento) ==
  [row  |-> [row EXCEPT !.ABERTURA = formatDateTime(abertura),
                        !.FECHAMENTO = formatDateTime(fechamento),
                        !.OPERADOR_ABERTURA = row.OPERADOR_FECHAMENTO,
                        !.OPERADOR_FECHAMENTO = row.OPERADOR_ABERTURA],
   seen |-> seenSet \cup {abertura, fechamento}]

\* the mapped row and the instants seen after it
UniqueResult(row, seenSet, abertura, fechamento) ==
  [row  |-> [row EXCEPT !.ABERTURA = formatDateTime(abertura),
                        !.FECHAMENTO = formatDateTime(fechamento)],
   seen |-> seenSet \cup {abertura, fechamento}]

UniqueFrom(row, seenSet, abertura, fechamento) ==
  UniqueResult(row, seenSet, abertura,
               NextFreeClosing(fechamento, seenSet \cup {abertura}, abertura))

\* the callback of rows.map for one row, given the instants seen so far
UniqueRow(row, seenSet) ==
  UniqueFrom(row, seenSet,
             NextFree(parseTimestamp([tag |-> "Text", v |-> row.ABERTURA]), seenSet),
             parseTimestamp([tag |-> "Text", v |-> row.FECHAMENTO]))

\* the comparator of the final sort
CompareRows(a, b) ==
  LET byFilial == CompareFilial(a.FILIAL, b.FILIAL)
  IN  IF byFilial # 0 THEN byFilial
      ELSE ParseText(a.ABERTURA) - ParseText(b.ABERTURA)

SortFinalRows(rows) == StableSort(rows, CompareRows)

(***************************************************************************)
(* processDeterministic as a function of its arguments                     *)
(***************************************************************************)

\* the iteration of day d appended to the iterations done so far for the
\* branch; each element keeps the row and the state the next day starts from
DayStep(evs, filial, d, ufCode, done) ==
  Append(done,
         IF Len(done) = 0
         THEN ResolveDay(evs, filial, d, ufCode, <<>>, <<>>, {})
         ELSE ResolveDay(evs, filial, d, ufCode,
                         done[Len(done)].prevAbertura,
                         done[Len(done)].prevFechamento,
                         done[Len(done)].used))

\* the while loop of one branch from day first to day d
RECURSIVE ResolveDays(_, _, _, _, _)
ResolveDays(evs, filial, first, d, ufCode) ==
  IF d < first THEN <<>>
  ELSE DayStep(evs, filial, d, ufCode, ResolveDays(evs, filial, first, d - 1, ufCode))

\* the for loop over the sorted branches: the iterations of all their days
RECURSIVE ResolveFilials(_, _, _)
ResolveFilials(evs, ranges, ufCode) ==
  IF Len(ranges) = 0 THEN <<>>
  ELSE ResolveFilials(evs, SubSeq(ranges, 1, Len(ranges) - 1), ufCode)
         \o ResolveDays(evs, ranges[Len(ranges)].filial,
                        DayOf(ranges[Len(ranges)].min), DayOf(ranges[Len(ranges)].max),
                        ufCode)

\* the callback of rows.map applied to row after the rows mapped so far
UniqueStep(done, row) ==
  Append(done, UniqueRow(row, IF Len(done) = 0 THEN {} ELSE done[Len(done)].seen))

\* rows.map over the first n rows: each mapped row with the instants seen
RECURSIVE UniqueUpTo(_, _)
UniqueUpTo(rows, n) ==
  IF n = 0 THEN <<>> ELSE UniqueStep(UniqueUpTo(rows, n - 1), rows[n])

\* the rows of a sequence of results
RowsIn(results) == [i \in 1..Len(results) |-> results[i].row]

ensureUniqueTimestamps(rows) == RowsIn(UniqueUpTo(rows, Len(rows)))

\* steps 1 to 5
processDeterministic(rows, ufCode) ==
  SortFinalRows(ensureUniqueTimestamps(RowsIn(
    ResolveFilials(ClassifyRows(rows), SortedFilials(ClassifyRows(rows)), ufCode))))

(***************************************************************************)
(* Inputs                                                                  *)
(***************************************************************************)

\* longest input (number of raw rows)
MaxLen == 3

\* all sequences over U of length at most n
RECURSIVE SeqsUpTo(_, _)
SeqsUpTo(U, n) ==
  IF n = 0 THEN {<<>>}
  ELSE LET shorter == SeqsUpTo(U, n - 1)
       IN  shorter \cup {Append(q, x) : q \in {r \in shorter : Len(r) = n - 1}, x \in U}

\* the instant of day d at hh:mm:ss
At(d, hh, mm, ss) == MakeDate(d, hh, mm, ss)

C_LOJA_7 == <<"L","O","J","A"," ","7">>
C_LOJA_007 == <<"L","O","J","A"," ","0","0","7">>
C_LOJA_42 == <<"P","M"," ","(","L","O","J","A"," ","4","2",")">>
C_LOJA_130 == <<"L","O","J","A"," ","1","3","0">>
C_LOJA_318 == <<"L","O","J","A"," ","3","1","8">>
C_LOJA_320 == <<"L","O","J","A"," ","3","2","0">>
C_ESCRITORIO == <<"E","S","C","R","I","T","Ó","R","I","O"," ","C","E","N","T","R","A","L">>
C_MATRIZ == <<"M","A","T","R","I","Z">>

F_7 == <<"7">>
F_007 == <<"0","0","7">>
F_130 == <<"1","3","0">>

D_DESARMADO == <<"D","E","S","A","R","M","A","D","O">>
D_ARMADO == <<"A","R","M","A","D","O">>

N_ANA == <<"A","N","A">>
N_BIA == <<"B","I","A">>
N_NONE == <<>>

S_SE == <<"S","E">>

\* a DESARME row (event code 1401) and an ARME row (event code 3401)
DisarmRow(conta, t, usuario) ==
  [conta |-> conta, data |-> DateCell(t), codigo |-> EventCodeDisarmed,
   descricao |-> D_DESARMADO, usuario |-> usuario]
ArmRow(conta, t, usuario) ==
  [conta |-> conta, data |-> DateCell(t), codigo |-> EventCodeArmed,
   descricao |-> D_ARMADO, usuario |-> usuario]

\* several branches, numeric and textual, with colliding instants and a gap day
BranchRows ==
  UNION {{DisarmRow(c, At(0, 6, 0, 0), N_ANA), ArmRow(c, At(2, 23, 0, 0), N_ANA)}
         : c \in {C_LOJA_7, C_LOJA_42, C_LOJA_130, C_ESCRITORIO, C_MATRIZ}}

\* one branch at the edges of both windows, and a second branch whose
\* synthesized opening of day 0 is 08:30:00
WindowRows ==
  {DisarmRow(C_LOJA_7, At(0, 5, 29, 59), N_ANA),
   DisarmRow(C_LOJA_7, At(0, 5, 30, 0), N_ANA),
   DisarmRow(C_LOJA_7, At(0, 8, 30, 0), N_ANA),
   DisarmRow(C_LOJA_7, At(0, 8, 30, 30), N_ANA),
   DisarmRow(C_LOJA_7, At(0, 8, 31, 0), N_ANA),
   ArmRow(C_LOJA_7, At(0, 22, 29, 59), N_ANA),
   ArmRow(C_LOJA_7, At(0, 22, 30, 0), N_ANA),
   ArmRow(C_LOJA_7, At(0, 23, 59, 59), N_ANA),
   ArmRow(C_LOJA_7, At(1, 0, 0, 0), N_ANA),
   ArmRow(C_LOJA_7, At(1, 1, 30, 0), N_ANA),
   ArmRow(C_LOJA_7, At(1, 1, 30, 30), N_ANA),
   ArmRow(C_LOJA_7, At(1, 1, 31, 0), N_ANA),
   ArmRow(C_LOJA_130, At(0, 23, 0, 0), N_ANA)}

\* one branch with several ARMEs a day, two of them at the same instant
ArmRows ==
  {DisarmRow(C_LOJA_7, At(0, 6, 0, 0), N_ANA),
   ArmRow(C_LOJA_7, At(0, 12, 0, 0), N_ANA),
   ArmRow(C_LOJA_7, At(0, 13, 0, 0), N_ANA),
   ArmRow(C_LOJA_7, At(1, 0, 10, 0), N_ANA),
   ArmRow(C_LOJA_7, At(1, 0, 30, 0), N_ANA),
   ArmRow(C_LOJA_7, At(1, 0, 30, 0), N_BIA),
   ArmRow(C_LOJA_7, At(1, 1, 31, 0), N_ANA),
   ArmRow(C_LOJA_7, At(1, 23, 30, 0), N_ANA),
   ArmRow(C_LOJA_7, At(2, 0, 30, 0), N_ANA)}

\* one branch whose rows name an operator or none
OperatorRows ==
  {DisarmRow(C_LOJA_7, At(0, 6, 0, 0), N_NONE),
   DisarmRow(C_LOJA_7, At(0, 6, 0, 0), N_ANA),
   ArmRow(C_LOJA_7, At(0, 23, 0, 0), N_NONE),
   ArmRow(C_LOJA_7, At(0, 23, 0, 0), N_BIA),
   DisarmRow(C_LOJA_7, At(1, 6, 0, 0), N_NONE),
   DisarmRow(C_LOJA_7, At(1, 15, 0, 0), N_BIA),
   ArmRow(C_LOJA_7, At(1, 23, 0, 0), N_NONE),
   ArmRow(C_LOJA_7, At(2, 23, 0, 0), N_ANA)}

\* the records of the documented scenarios: an ARME before 22:30, an ARME
\* after midnight, a DESARME on one day and an ARME two days later, and a
\* DESARME at 15:00
ScenarioRows ==
  {DisarmRow(C_LOJA_318, At(1, 5, 57, 3), N_ANA),
   ArmRow(C_LOJA_318, At(1, 22, 8, 7), N_BIA),
   DisarmRow(C_LOJA_320, At(1, 6, 23, 15), N_ANA),
   ArmRow(C_LOJA_320, At(2, 0, 46, 21), N_BIA),
   DisarmRow(C_LOJA_7, At(0, 8, 30, 0), N_ANA),
   DisarmRow(C_LOJA_7, At(0, 15, 0, 0), N_ANA),
   ArmRow(C_LOJA_7, At(2, 0, 30, 0), N_BIA),
   ArmRow(C_LOJA_7, At(2, 1, 31, 0), N_BIA),
   ArmRow(C_LOJA_7, At(2, 23, 0, 0), N_BIA),
   DisarmRow(C_LOJA_130, At(0, 15, 0, 0), N_BIA)}

\* records whose event code and description agree, disagree or say nothing,
\* and records without a usable 'Data de recebimento'
RecordRows ==
  LET Record(conta, data, codigo, descricao, usuario) ==
        [conta |-> conta, data |-> data, codigo |-> codigo,
         descricao |-> descricao, usuario |-> usuario]
  IN  {Record(C_LOJA_7, DateCell(At(0, 6, 0, 0)), EventCodeDisarmed, D_DESARMADO, N_ANA),
       Record(C_LOJA_7, DateCell(At(0, 6, 1, 0)), EventCodeDisarmed, D_ARMADO, N_ANA),
       Record(C_LOJA_7, DateCell(At(0, 23, 0, 0)), EventCodeArmed, D_ARMADO, N_ANA),
       Record(C_LOJA_7, DateCell(At(0, 23, 1, 0)), EventCodeArmed, D_DESARMADO, N_ANA),
       Record(C_LOJA_7, DateCell(At(0, 6, 2, 0)), 1130, D_DESARMADO, N_ANA),
       Record(C_LOJA_7, DateCell(At(0, 23, 2, 0)), 1130, D_ARMADO, N_ANA),
       Record(C_LOJA_7, DateCell(At(0, 23, 3, 0)), 1130, <<"a","l","a","R","M","E">>, N_ANA),
       Record(C_LOJA_7, DateCell(At(2, 12, 0, 0)), 1130, <<>>, N_BIA),
       Record(C_LOJA_7, BadCell, EventCodeDisarmed, D_DESARMADO, N_BIA),
       Record(C_LOJA_130, [tag |-> "Missing", v |-> <<>>], EventCodeArmed, D_ARMADO, N_BIA),
       Record(C_LOJA_7, TextCell(At(1, 6, 0, 0)), EventCodeDisarmed, D_DESARMADO, N_ANA)}

\* two branches whose identifiers, 7 and 007, are equal as integers, next to a
\* greater number and a textual branch, over two days
PaddedRows ==
  {DisarmRow(C_LOJA_7, MakeDate(0, 6, 0, 0), N_ANA),
   ArmRow(C_LOJA_7, MakeDate(1, 23, 0, 0), N_ANA),
   DisarmRow(C_LOJA_007, MakeDate(0, 6, 0, 0), N_BIA),
   DisarmRow(C_LOJA_007, MakeDate(0, 6, 30, 0), N_BIA),
   ArmRow(C_LOJA_007, MakeDate(1, 23, 10, 0), N_BIA),
   DisarmRow(C_LOJA_130, MakeDate(0, 7, 0, 0), N_ANA),
   ArmRow(C_LOJA_130, MakeDate(1, 23, 20, 0), N_ANA),
   DisarmRow(C_ESCRITORIO, MakeDate(0, 7, 10, 0), N_BIA)}

\* records of one branch whose description says that the panel was armed
\* remotely, with and without a user column and a name in the description,
\* next to records of local arming and disarming
RemoteRows ==
  LET Record(t, codigo, descricao, usuario) ==
        [conta |-> C_LOJA_7, data |-> DateCell(t), codigo |-> codigo,
         descricao |-> descricao, usuario |-> usuario]
  IN  {Record(MakeDate(0, 6, 0, 0), EventCodeDisarmed, D_DESARMADO, N_ANA),
       Record(MakeDate(0, 6, 10, 0), EventCodeDisarmed, <<"D","E","S","A","R","M","A","D","O"," ","R","E","M","O","T","O">>, N_ANA),
       Record(MakeDate(0, 23, 0, 0), EventCodeArmed, <<"A","R","M","E"," ","R","E","M","O","T","O">>, N_ANA),
       Record(MakeDate(0, 23, 10, 0), EventCodeArmed, <<"A","r","m","a","d","o"," ","R","e","m","o","t","o"," ","P","E","L","O"," ","U","S","U","A","R","I","O"," ","B","I","A">>, N_NONE),
       Record(MakeDate(0, 23, 20, 0), EventCodeArmed, <<"A","R","M","A","D","O"," ","P","E","L","O"," ","U","S","U","A","R","I","O"," ","B","I","A">>, N_NONE),
       Record(MakeDate(0, 23, 30, 0), EventCodeArmed, D_ARMADO, N_ANA),
       Record(MakeDate(1, 23, 0, 0), 1130, <<"A","R","M","E"," ","R","E","M","O","T","O"," ","-"," ","S","R","."," ","A","N","A">>, N_BIA),
       Record(MakeDate(1, 23, 10, 0), EventCodeArmed, D_ARMADO, N_NONE)}

(***************************************************************************)
(* processDeterministic as a state machine                                 *)
(***************************************************************************)

VARIABLES
  rawData,                 \* the argument rawData
  uf,                      \* the argument uf
  pc,                      \* the step of processDeterministic about to run
  events,                  \* events
  sortedFilials,           \* sortedFilials
  fi,                      \* position of the for loop in sortedFilials
  currentDate,             \* currentDate, as a day index
  prevAberturaOperador,    \* '' for null
  prevFechamentoOperador,  \* '' for null
  usedArmes,               \* usedArmes: the timestamps of the ARMEs used
  processedRows,           \* processedRows
  decisions,               \* per processed row: the events and branches taken
  seen,                    \* seen of ensureUniqueTimestamps
  finalRows,               \* the rows ensureUniqueTimestamps has mapped so far
  output                   \* the returned rows

vars == <<rawData, uf, pc, events, sortedFilials, fi, currentDate,
          prevAberturaOperador, prevFechamentoOperador, usedArmes,
          processedRows, decisions, seen, finalRows, output>>

\* the state at the call processDeterministic(input, 'SE')
InitWith(Inputs) ==
  /\ rawData \in Inputs
  /\ uf = S_SE
  /\ pc = "classify"
  /\ events = <<>>
  /\ sortedFilials = <<>>
  /\ fi = 0
  /\ currentDate = 0
  /\ prevAberturaOperador = <<>>
  /\ prevFechamentoOperador = <<>>
  /\ usedArmes = {}
  /\ processedRows = <<>>
  /\ decisions = <<>>
  /\ seen = {}
  /\ finalRows = <<>>
  /\ output = <<>>

Init == InitWith(SeqsUpTo(BranchRows, MaxLen))

\* step 1: classify and normalise the rows
Classify ==
  /\ pc = "classify"
  /\ events' = ClassifyRows(rawData)
  /\ pc' = "group"
  /\ UNCHANGED <<rawData, uf, sortedFilials, fi, currentDate, prevAberturaOperador,
                 prevFechamentoOperador, usedArmes, processedRows, decisions,
                 seen, finalRows, output>>

\* step 2 and the sort of the branches; enters the loops of step 3
Group ==
  /\ pc = "group"
  /\ sortedFilials' = SortedFilials(events)
  /\ IF Len(sortedFilials') = 0
     THEN pc' = "unique" /\ fi' = 0 /\ currentDate' = 0
     ELSE pc' = "resolve" /\ fi' = 1 /\ currentDate' = DayOf(sortedFilials'[1].min)
  /\ UNCHANGED <<rawData, uf, events, prevAberturaOperador, prevFechamentoOperador,
                 usedArmes, processedRows, decisions, seen, finalRows, output>>

\* loop headers that carry the operator memory and the used ARMEs over to
\* the next branch
Advance_KeepMemory(r) ==
  /\ processedRows' = Append(processedRows, r.row)
  /\ decisions' = Append(decisions, r.decision)
  /\ prevAberturaOperador' = r.prevAbertura
  /\ prevFechamentoOperador' = r.prevFechamento
  /\ usedArmes' = r.used
  /\ IF currentDate + 1 <= DayOf(sortedFilials[fi].max)
     THEN /\ currentDate' = currentDate + 1
          /\ UNCHANGED <<fi, pc>>
     ELSE IF fi < Len(sortedFilials)
          THEN /\ fi' = fi + 1
               /\ currentDate' = DayOf(sortedFilials[fi + 1].min)
               /\ UNCHANGED pc
          ELSE /\ pc' = "unique"
               /\ UNCHANGED <<fi, currentDate>>

\* the effect of one iteration with result r, then the loop headers
Advance(r) ==
  /\ processedRows' = Append(processedRows, r.row)
  /\ decisions' = Append(decisions, r.decision)
  /\ IF currentDate + 1 <= DayOf(sortedFilials[fi].max)
     THEN /\ currentDate' = currentDate + 1
          /\ prevAberturaOperador' = r.prevAbertura
          /\ prevFechamentoOperador' = r.prevFechamento
          /\ usedArmes' = r.used
          /\ UNCHANGED <<fi, pc>>
     ELSE /\ prevAberturaOperador' = <<>>
          /\ prevFechamentoOperador' = <<>>
          /\ usedArmes' = {}
          /\ IF fi < Len(sortedFilials)
             THEN /\ fi' = fi + 1
                  /\ currentDate' = DayOf(sortedFilials[fi + 1].min)
                  /\ UNCHANGED pc
             ELSE /\ pc' = "unique"
                  /\ UNCHANGED <<fi, currentDate>>

\* step 3: one iteration of the while loop, then the loop headers
Resolve ==
  /\ pc = "resolve"
  /\ Advance(ResolveDay(events, sortedFilials[fi].filial, currentDate, uf,
                        prevAberturaOperador, prevFechamentoOperador, usedArmes))
  /\ UNCHANGED <<rawData, uf, events, sortedFilials, seen, finalRows, output>>

\* the effect of mapping one row with result u
Mapped(u) ==
  /\ finalRows' = Append(finalRows, u.row)
  /\ seen' = u.seen

\* a uniqueness pass that maps the rows resolved so far while later days and
\* branches are still being resolved
Unique_Early ==
  /\ pc \in {"resolve", "unique"}
  /\ Len(finalRows) < Len(processedRows)
  /\ Mapped(UniqueRow(processedRows[Len(finalRows) + 1], seen))
  /\ UNCHANGED <<rawData, uf, pc, events, sortedFilials, fi, currentDate,
                 prevAberturaOperador, prevFechamentoOperador, usedArmes,
                 processedRows, decisions, output>>

\* step 4: ensureUniqueTimestamps maps the next row
Unique ==
  /\ pc = "unique"
  /\ Len(finalRows) < Len(processedRows)
  /\ Mapped(UniqueRow(processedRows[Len(finalRows) + 1], seen))
  /\ UNCHANGED <<rawData, uf, pc, events, sortedFilials, fi, currentDate,
                 prevAberturaOperador, prevFechamentoOperador, usedArmes,
                 processedRows, decisions, output>>

\* step 5: the final sort, and the return
SortAndReturn ==
  /\ pc = "unique"
  /\ Len(finalRows) = Len(processedRows)
  /\ output' = SortFinalRows(finalRows)
  /\ pc' = "done"
  /\ UNCHANGED <<rawData, uf, events, sortedFilials, fi, currentDate,
                 prevAberturaOperador, prevFechamentoOperador, usedArmes,
                 processedRows, decisions, seen, finalRows>>

Next == Classify \/ Group \/ Resolve \/ Unique \/ SortAndReturn

Spec == Init /\ [][Next]_vars

\* the same machine on the inputs at the window edges
SpecWindow == InitWith(SeqsUpTo(WindowRows, MaxLen)) /\ [][Next]_vars

\* the same machine on the inputs with several ARMEs a day
SpecArm == InitWith(SeqsUpTo(ArmRows, MaxLen)) /\ [][Next]_vars

\* the same machine on the inputs with and without operators
SpecOperator == InitWith(SeqsUpTo(OperatorRows, MaxLen)) /\ [][Next]_vars

\* the same machine on the records of the documented scenarios
SpecScenario == InitWith(SeqsUpTo(ScenarioRows, MaxLen)) /\ [][Next]_vars

\* the same machine on the branches with equal and different numbers
SpecPadded == InitWith(SeqsUpTo(PaddedRows, MaxLen)) /\ [][Next]_vars

\* the same machine on the records of remote and local arming
SpecRemote == InitWith(SeqsUpTo(RemoteRows, MaxLen)) /\ [][Next]_vars

\* the same machine on the records with and without a type or a timestamp
SpecRecords == InitWith(SeqsUpTo(RecordRows, MaxLen)) /\ [][Next]_vars

(***************************************************************************)
(* Properties                                                              *)
(***************************************************************************)

\* the opening and closing instants of a row
AberturaOf(row) == ParseText(row.ABERTURA)
FechamentoOf(row) == ParseText(row.FECHAMENTO)

\* the calendar days on which the branch has classified events
BranchDays(filial) ==
  {DayOf(events[i].timestamp) : i \in {k \in DOMAIN events : events[k].filial = filial}}

\* the output rows of the branch whose opening is on day d
RowsOf(filial, d) ==
  {i \in DOMAIN output : output[i].FILIAL = filial /\ DayOf(AberturaOf(output[i])) = d}

\* C1 (coverage): in the returned report, a branch whose classified events
\* span the calendar days D1..Dn has exactly one row for each day of D1..Dn
\* and no row for any other day; a branch without events has no row.
C1_Coverage ==
  pc = "done" =>
    \A filial \in {events[i].filial : i \in DOMAIN events}
                    \cup {output[i].FILIAL : i \in DOMAIN output} :
      \A d \in 0..(Len(Calendar) - 1) :
        Cardinality(RowsOf(filial, d)) =
          IF /\ BranchDays(filial) # {}
             /\ \E lo \in BranchDays(filial) : lo <= d
             /\ \E hi \in BranchDays(filial) : d <= hi
          THEN 1 ELSE 0

\* a returned report with a row for a day on which the branch has no event
C1_Witness ==
  /\ pc = "done"
  /\ \E i \in DOMAIN output :
       /\ DayOf(AberturaOf(output[i])) \notin BranchDays(output[i].FILIAL)
       /\ \E j \in DOMAIN output : j # i /\ output[j].FILIAL = output[i].FILIAL

\* C2 (uniqueness): in the returned report no two rows have the same opening
\* instant, no two rows have the same closing instant, and no row's opening
\* equals its closing, at one-second resolution.
C2_Unique ==
  pc = "done" =>
    \A i \in DOMAIN output :
      /\ output[i].ABERTURA # output[i].FECHAMENTO
      /\ \A j \in DOMAIN output :
           i # j => /\ output[i].ABERTURA # output[j].ABERTURA
                    /\ output[i].FECHAMENTO # output[j].FECHAMENTO

\* a returned report in which ensureUniqueTimestamps moved an instant: two rows
\* that had equal openings or equal closings and no longer have
C2_Witness ==
  /\ pc = "done"
  /\ \E i, j \in DOMAIN processedRows :
       /\ i # j
       /\ \/ processedRows[i].ABERTURA = processedRows[j].ABERTURA
          \/ processedRows[i].FECHAMENTO = processedRows[j].FECHAMENTO
       /\ finalRows[i].ABERTURA # finalRows[j].ABERTURA
       /\ finalRows[i].FECHAMENTO # finalRows[j].FECHAMENTO

TimeOfDay(t) == t % DaySeconds

\* 05:30:00 <= t <= 08:30:00, to the second
InOpeningWindow(t) ==
  /\ timeToSeconds(5, 30, 0) <= TimeOfDay(t)
  /\ TimeOfDay(t) <= timeToSeconds(8, 30, 0)

\* C3 (kept openings): every opening that is the kept original timestamp of
\* a Disarm event has its time of day within 05:30:00..08:30:00, to the
\* second; an earliest Disarm outside that window is not kept.
C3_KeptOpeningInWindow ==
  \A i \in DOMAIN decisions :
    decisions[i].aberturaKept =>
      /\ AberturaOf(processedRows[i]) = events[decisions[i].desarme].timestamp
      /\ InOpeningWindow(events[decisions[i].desarme].timestamp)

\* C4 (synthesized openings): in the returned report every synthesized
\* opening (the day has no Disarm, or its earliest Disarm was replaced) has
\* its time of day within 05:30:00..08:30:00.
C4_SynthesizedOpeningInWindow ==
  pc = "done" =>
    \A j \in DOMAIN output : \A i \in DOMAIN decisions :
      ( /\ decisions[i].filial = output[j].FILIAL
        /\ decisions[i].day = DayOf(AberturaOf(output[j]))
        /\ ~decisions[i].aberturaKept )
      => InOpeningWindow(AberturaOf(output[j]))

\* C5 (kept closings): the closing is the kept original timestamp of the Arm
\* candidate exactly when the candidate is on the row's day within
\* 22:30:00..23:59:59 or on the next day within 00:00:00..01:30:00; without a
\* candidate the closing is never a kept one.
C5_KeptClosingIffInWindow ==
  \A i \in DOMAIN decisions :
    IF decisions[i].arme = 0 THEN ~decisions[i].fechamentoKept
    ELSE LET t == events[decisions[i].arme].timestamp
         IN  decisions[i].fechamentoKept <=>
               \/ /\ DayOf(t) = decisions[i].day
                  /\ timeToSeconds(22, 30, 0) <= TimeOfDay(t)
                  /\ TimeOfDay(t) <= timeToSeconds(23, 59, 59)
               \/ /\ DayOf(t) = decisions[i].day + 1
                  /\ TimeOfDay(t) <= timeToSeconds(1, 30, 0)

\* the ARME events of the branch on day d
ArmsOn(filial, d) ==
  {k \in DOMAIN events : /\ events[k].filial = filial
                         /\ events[k].type = "ARME"
                         /\ DayOf(events[k].timestamp) = d}

\* the instants of the candidates chosen by the earlier rows of row i's branch
ConsumedBefore(i) ==
  {events[decisions[j].arme].timestamp :
     j \in {k \in 1..(i - 1) : /\ decisions[k].filial = decisions[i].filial
                               /\ decisions[k].arme # 0}}

\* row i's same-day pool: the day's ARMEs whose instant is not consumed
SameDayPool(i) ==
  {k \in ArmsOn(decisions[i].filial, decisions[i].day) :
     events[k].timestamp \notin ConsumedBefore(i)}

\* row i's next-day pool: the next day's unconsumed ARMEs in hour 00, or in
\* hour 01 with minute <= 30
NextDayPool(i) ==
  {k \in ArmsOn(decisions[i].filial, decisions[i].day + 1) :
     /\ events[k].timestamp \notin ConsumedBefore(i)
     /\ \/ HourOf(events[k].timestamp) = 0
        \/ HourOf(events[k].timestamp) = 1 /\ MinuteOf(events[k].timestamp) <= 30}

\* event k is in P and none of P is later
IsLatestOf(k, P) ==
  k \in P /\ \A m \in P : events[m].timestamp <= events[k].timestamp

\* C6 (an Arm is consumed once): no ARME event is the closing candidate of
\* two rows, and the candidate of a row is in neither pool of any later row
\* of its branch.
C6_ArmUsedOnce ==
  \A i, j \in DOMAIN decisions :
    (i < j /\ decisions[i].arme # 0) =>
      /\ decisions[j].arme # decisions[i].arme
      /\ decisions[j].filial = decisions[i].filial =>
           \A k \in 1..Len(ArmesDay(events, decisions[j].filial, decisions[j].day,
                                    decisions[j].usedBefore)) :
             ArmesDay(events, decisions[j].filial, decisions[j].day,
                      decisions[j].usedBefore)[k] # decisions[i].arme
      /\ decisions[j].filial = decisions[i].filial =>
           \A k \in 1..Len(ArmesNextDay(events, decisions[j].filial, decisions[j].day,
                                        decisions[j].usedBefore)) :
             ArmesNextDay(events, decisions[j].filial, decisions[j].day,
                          decisions[j].usedBefore)[k] # decisions[i].arme

\* a row whose candidate came from the next day, followed by the row of that
\* day, for which the event would otherwise be a same-day ARME
C6_Witness ==
  \E i, j \in DOMAIN decisions :
    /\ i < j
    /\ decisions[i].filial = decisions[j].filial
    /\ decisions[i].arme # 0
    /\ decisions[i].arme \in ArmsOn(decisions[j].filial, decisions[j].day)

ReferenceOpening(filial, d) ==
  CASE filial = F_7 /\ d = 0 -> At(0, 5, 48, 15)
    [] filial = F_7 /\ d = 1 -> At(1, 5, 55, 25)
    [] filial = F_130 /\ d = 0 -> At(0, 8, 30, 0)

\* likewise for CLOSE-7-2025-10-30, CLOSE-7-2025-10-31 and CLOSE-130-2025-10-30
ReferenceClosing(filial, d) ==
  CASE filial = F_7 /\ d = 0 -> At(0, 23, 32, 59)
    [] filial = F_7 /\ d = 1 -> At(1, 23, 25, 48)
    [] filial = F_130 /\ d = 0 -> At(1, 0, 10, 31)

\* C8 (determinism of synthesis): whatever the other events of the input,
\* a synthesized opening or closing of a row is the one instant that belongs
\* to its (window kind, branch, calendar date).
C8_SynthesizedByKey ==
  \A i \in DOMAIN decisions :
    /\ ~decisions[i].aberturaKept =>
         AberturaOf(processedRows[i])
           = ReferenceOpening(decisions[i].filial, decisions[i].day)
    /\ ~decisions[i].fechamentoKept =>
         FechamentoOf(processedRows[i])
           = ReferenceClosing(decisions[i].filial, decisions[i].day)

\* rows of two branches with synthesized openings, among three events
C8_Witness ==
  /\ Len(events) = 3
  /\ \E i, j \in DOMAIN decisions :
       /\ decisions[i].filial # decisions[j].filial
       /\ ~decisions[i].aberturaKept /\ ~decisions[j].aberturaKept
       /\ ~decisions[i].fechamentoKept

\* the day's DESARME events of row i
DisarmsOf(i) ==
  {k \in DOMAIN events : /\ events[k].filial = decisions[i].filial
                         /\ events[k].type = "DESARME"
                         /\ DayOf(events[k].timestamp) = decisions[i].day}

\* the operator of row i's earliest DESARME, empty if there is none
OwnOpeningOperator(i) ==
  IF decisions[i].desarme = 0 THEN <<>> ELSE events[decisions[i].desarme].operador

\* C10 (opening operator): the row's DESARME is the earliest of its day, and
\* the opening operator is that event's operator if it has one, also when
\* its time was replaced; else the remembered previous opening operator of
\* the branch, else the remembered previous closing operator, else the
\* closing operator of the row, else empty.
C10_OpeningOperator ==
  \A i \in DOMAIN decisions :
    /\ IF DisarmsOf(i) = {} THEN decisions[i].desarme = 0
       ELSE /\ decisions[i].desarme \in DisarmsOf(i)
            /\ \A k \in DisarmsOf(i) :
                 events[decisions[i].desarme].timestamp <= events[k].timestamp
    /\ processedRows[i].OPERADOR_ABERTURA =
         IF OwnOpeningOperator(i) # <<>> THEN OwnOpeningOperator(i)
         ELSE IF decisions[i].prevAbertura # <<>> THEN decisions[i].prevAbertura
         ELSE IF decisions[i].prevFechamento # <<>> THEN decisions[i].prevFechamento
         ELSE processedRows[i].OPERADOR_FECHAMENTO

\* a row that took its opening operator from its own closing, and a later
\* row that took it from the memory of the branch
C10_Witness ==
  /\ \E i \in DOMAIN decisions :
       /\ OwnOpeningOperator(i) = <<>>
       /\ decisions[i].prevAbertura = <<>> /\ decisions[i].prevFechamento = <<>>
       /\ processedRows[i].OPERADOR_ABERTURA # <<>>
  /\ \E i \in DOMAIN decisions :
       /\ decisions[i].desarme # 0
       /\ OwnOpeningOperator(i) = <<>>
       /\ decisions[i].prevAbertura # <<>>

\* the operator of row i's closing candidate, empty if there is none
OwnClosingOperator(i) ==
  IF decisions[i].arme = 0 THEN <<>> ELSE events[decisions[i].arme].operador

\* C11 (closing operator): the closing operator of a row is the operator of
\* its consumed ARME candidate if that is not empty; else the remembered
\* previous closing operator of the branch, else the remembered previous
\* opening operator, else the opening operator of the day (that of its
\* DESARME, which is then the row's opening operator), else empty.
C11_ClosingOperator ==
  \A i \in DOMAIN decisions :
    IF OwnClosingOperator(i) # <<>>
    THEN processedRows[i].OPERADOR_FECHAMENTO = OwnClosingOperator(i)
    ELSE IF decisions[i].prevFechamento # <<>>
    THEN processedRows[i].OPERADOR_FECHAMENTO = decisions[i].prevFechamento
    ELSE IF decisions[i].prevAbertura # <<>>
    THEN processedRows[i].OPERADOR_FECHAMENTO = decisions[i].prevAbertura
    ELSE /\ processedRows[i].OPERADOR_FECHAMENTO = OwnOpeningOperator(i)
         /\ processedRows[i].OPERADOR_FECHAMENTO = processedRows[i].OPERADOR_ABERTURA

\* a row whose candidate names nobody and took the day's opening operator,
\* and a later row whose candidate names nobody and took the remembered
\* closing operator
C11_Witness ==
  /\ \E i \in DOMAIN decisions :
       /\ decisions[i].arme # 0 /\ OwnClosingOperator(i) = <<>>
       /\ decisions[i].prevFechamento = <<>>
       /\ processedRows[i].OPERADOR_FECHAMENTO # <<>>
  /\ \E i \in DOMAIN decisions :
       /\ decisions[i].arme # 0 /\ OwnClosingOperator(i) = <<>>
       /\ decisions[i].prevFechamento # <<>>
       /\ processedRows[i].OPERADOR_FECHAMENTO = decisions[i].prevFechamento

\* the rows processed before position i for the branch of row k
EarlierRows(i, k) ==
  {j \in 1..(i - 1) : decisions[j].filial = decisions[k].filial}

\* the most recent non-empty opening (closing) operator among the rows of R
LastOpeningOperator(R) ==
  LET named == {j \in R : processedRows[j].OPERADOR_ABERTURA # <<>>}
  IN  IF named = {} THEN <<>>
      ELSE processedRows[CHOOSE j \in named : \A m \in named : m <= j].OPERADOR_ABERTURA
LastClosingOperator(R) ==
  LET named == {j \in R : processedRows[j].OPERADOR_FECHAMENTO # <<>>}
  IN  IF named = {} THEN <<>>
      ELSE processedRows[CHOOSE j \in named : \A m \in named : m <= j].OPERADOR_FECHAMENTO

\* C12 (carry-forward memory): the memory a row starts from, and the memory
\* held while a branch is being processed, is for each column the operator
\* of the most recent earlier row of that branch whose operator in that
\* column is not empty, and empty if there is none: a row replaces the
\* memory with its operator only when that operator is not empty.
C12_CarryForward ==
  /\ \A i \in DOMAIN decisions :
       /\ decisions[i].prevAbertura = LastOpeningOperator(EarlierRows(i, i))
       /\ decisions[i].prevFechamento = LastClosingOperator(EarlierRows(i, i))
  /\ ( /\ pc = "resolve"
       /\ Len(decisions) > 0
       /\ decisions[Len(decisions)].filial = sortedFilials[fi].filial )
     => /\ prevAberturaOperador
             = LastOpeningOperator(EarlierRows(Len(decisions) + 1, Len(decisions)))
        /\ prevFechamentoOperador
             = LastClosingOperator(EarlierRows(Len(decisions) + 1, Len(decisions)))

\* a branch whose memory of openings was replaced by a different operator and
\* was then the start of a third row
C12_Witness ==
  \E i, j \in DOMAIN decisions :
    /\ j = i + 1
    /\ decisions[i].filial = decisions[j].filial
    /\ decisions[i].prevAbertura # <<>>
    /\ processedRows[i].OPERADOR_ABERTURA # decisions[i].prevAbertura
    /\ decisions[j].prevAbertura = processedRows[i].OPERADOR_ABERTURA

\* the two orders of a pair of records
BothOrders(a, b) == {<<a, b>>, <<b, a>>}

\* the input of scenario A: account LOJA 318, a DESARME at 31/10/2025 05:57:03
\* and an ARME at 31/10/2025 22:08:07
ScenarioAInputs ==
  BothOrders(DisarmRow(C_LOJA_318, At(1, 5, 57, 3), N_ANA),
             ArmRow(C_LOJA_318, At(1, 22, 8, 7), N_BIA))

\* C13 as stated (scenario A): the report for that input is one row of branch
\* 318 whose opening is 31/10/2025 05:57:03 and whose closing is
\* 31/10/2025 22:08:07, both kept from the events.
C13_ScenarioA ==
  (pc = "done" /\ rawData \in ScenarioAInputs) =>
    /\ Len(output) = 1
    /\ output[1].FILIAL = <<"3","1","8">>
    /\ output[1].ABERTURA = <<31, 10, 2025, 5, 57, 3>>
    /\ decisions[1].aberturaKept
    /\ output[1].FECHAMENTO = <<31, 10, 2025, 22, 8, 7>>
    /\ decisions[1].fechamentoKept

\* C13 as amended (scenario A): the report for that input is one row of branch
\* 318 whose opening is the kept 31/10/2025 05:57:03 and whose closing is
\* 01/11/2025 00:57:16, the instant synthesized for CLOSE-318-2025-10-31 in
\* place of the ARME of 22:08:07, which is consumed and whose operator is the
\* closing operator.
C13_ScenarioA_ClosingReplaced ==
  (pc = "done" /\ rawData \in ScenarioAInputs) =>
    /\ Len(output) = 1
    /\ output[1].FILIAL = <<"3","1","8">>
    /\ output[1].ABERTURA = <<31, 10, 2025, 5, 57, 3>>
    /\ decisions[1].aberturaKept
    /\ output[1].FECHAMENTO = <<1, 11, 2025, 0, 57, 16>>
    /\ ~decisions[1].fechamentoKept
    /\ decisions[1].arme # 0
    /\ output[1].OPERADOR_ABERTURA = N_ANA
    /\ output[1].OPERADOR_FECHAMENTO = N_BIA

\* the report of scenario A has been returned
C13_Witness == pc = "done" /\ rawData \in ScenarioAInputs /\ Len(output) = 1

\* the input of scenario B: account LOJA 320, a DESARME at 31/10/2025 06:23:15
\* and an ARME at 01/11/2025 00:46:21
ScenarioBInputs ==
  BothOrders(DisarmRow(C_LOJA_320, At(1, 6, 23, 15), N_ANA),
             ArmRow(C_LOJA_320, At(2, 0, 46, 21), N_BIA))

\* C14 as stated (scenario B): the report for that input is one row, for
\* 31/10/2025, whose opening is 31/10/2025 06:23:15 and whose closing is
\* 01/11/2025 00:46:21, both kept from the events.
C14_ScenarioB ==
  (pc = "done" /\ rawData \in ScenarioBInputs) =>
    /\ Len(output) = 1
    /\ output[1].ABERTURA = <<31, 10, 2025, 6, 23, 15>>
    /\ decisions[1].aberturaKept
    /\ output[1].FECHAMENTO = <<1, 11, 2025, 0, 46, 21>>
    /\ decisions[1].fechamentoKept

\* C14 as amended (scenario B): the report for that input has exactly one row
\* for 31/10/2025, whose opening 31/10/2025 06:23:15 and closing
\* 01/11/2025 00:46:21 are both kept from the events, followed by one row for
\* 01/11/2025, the calendar date of the ARME, whose opening 05:39:33 and
\* closing 23:59:02 are both synthesized without a candidate.
C14_ScenarioB_TwoRows ==
  (pc = "done" /\ rawData \in ScenarioBInputs) =>
    /\ Len(output) = 2
    /\ output[1].FILIAL = <<"3","2","0">> /\ output[2].FILIAL = <<"3","2","0">>
    /\ output[1].ABERTURA = <<31, 10, 2025, 6, 23, 15>>
    /\ decisions[1].aberturaKept
    /\ output[1].FECHAMENTO = <<1, 11, 2025, 0, 46, 21>>
    /\ decisions[1].fechamentoKept
    /\ output[2].ABERTURA = <<1, 11, 2025, 5, 39, 33>>
    /\ output[2].FECHAMENTO = <<1, 11, 2025, 23, 59, 2>>
    /\ ~decisions[2].aberturaKept /\ ~decisions[2].fechamentoKept
    /\ decisions[2].desarme = 0 /\ decisions[2].arme = 0

\* the report of scenario B has been returned
C14_Witness == pc = "done" /\ rawData \in ScenarioBInputs /\ Len(output) = 2

\* the classified events of a branch
BranchEvents(filial) == {k \in DOMAIN events : events[k].filial = filial}

\* the rows resolved for the branch on day d
DecisionsOf(filial, d) ==
  {i \in DOMAIN decisions : decisions[i].filial = filial /\ decisions[i].day = d}

\* the branch's only events are a DESARME on day d and the ARME k on day d + 2
ScenarioC(filial, d, k) ==
  /\ k \in BranchEvents(filial)
  /\ events[k].type = "ARME" /\ DayOf(events[k].timestamp) = d + 2
  /\ \E a \in BranchEvents(filial) :
       /\ BranchEvents(filial) = {a, k}
       /\ events[a].type = "DESARME" /\ DayOf(events[a].timestamp) = d

\* the report has three rows for the branch, for the days d, d + 1 and d + 2;
\* the opening and the closing of day d + 1 are synthesized and its
\* operators are those of the row of day d
ThreeRowsCarried(filial, d) ==
  /\ Cardinality({j \in DOMAIN output : output[j].FILIAL = filial}) = 3
  /\ \A e \in {d, d + 1, d + 2} : Cardinality(RowsOf(filial, e)) = 1
  /\ \A i \in DecisionsOf(filial, d + 1) :
       ~decisions[i].aberturaKept /\ ~decisions[i].fechamentoKept
  /\ \A j \in RowsOf(filial, d + 1) : \A k \in RowsOf(filial, d) :
       /\ output[j].OPERADOR_ABERTURA = output[k].OPERADOR_ABERTURA
       /\ output[j].OPERADOR_FECHAMENTO = output[k].OPERADOR_FECHAMENTO

\* C15 as stated (scenario C): for a branch whose only events are a DESARME on
\* day 1 and an ARME on day 3, at any time of day, the report has exactly
\* three rows of consecutive days for the branch, the opening and closing of
\* day 2 are synthesized and the operators of day 2 are those carried forward
\* from day 1.
C15_ScenarioC ==
  pc = "done" =>
    \A k \in DOMAIN events : \A d \in 0..(Len(Calendar) - 3) :
      ScenarioC(events[k].filial, d, k) => ThreeRowsCarried(events[k].filial, d)

\* the ARME is outside the next-day pool: not in hour 00, nor in hour 01 with
\* minute <= 30
AfterNextDayPool(t) == ~(HourOf(t) = 0 \/ (HourOf(t) = 1 /\ MinuteOf(t) <= 30))

\* C15 as amended (scenario C): the same, for an ARME on day 3 at 01:31:00 or
\* later; an earlier ARME of day 3 is the closing candidate of day 2.
C15_ScenarioC_LateArm ==
  pc = "done" =>
    \A k \in DOMAIN events : \A d \in 0..(Len(Calendar) - 3) :
      (ScenarioC(events[k].filial, d, k) /\ AfterNextDayPool(events[k].timestamp))
        => ThreeRowsCarried(events[k].filial, d)

\* a returned report for a branch in scenario C with an ARME at 01:31:00 or
\* later, whose DESARME names an operator
C15_Witness ==
  /\ pc = "done"
  /\ \E k \in DOMAIN events :
       /\ ScenarioC(events[k].filial, 0, k)
       /\ AfterNextDayPool(events[k].timestamp)
       /\ \A j \in RowsOf(events[k].filial, 1) : output[j].OPERADOR_ABERTURA # <<>>

\* C16 (scenario D): when the only event of a branch on a day is a DESARME at
\* 15:00:00, the opening of that day's row in the report is synthesized, lies
\* within 05:30:00..08:30:00 and is the instant that belongs to (branch,
\* date), and the opening operator is the operator the DESARME names.
C16_ScenarioD ==
  pc = "done" =>
    \A i \in DOMAIN decisions : \A k \in DOMAIN events :
      ( /\ {e \in BranchEvents(decisions[i].filial) :
              DayOf(events[e].timestamp) = decisions[i].day} = {k}
        /\ events[k].type = "DESARME"
        /\ TimeOfDay(events[k].timestamp) = timeToSeconds(15, 0, 0) )
      => /\ ~decisions[i].aberturaKept
         /\ \A j \in RowsOf(decisions[i].filial, decisions[i].day) :
              /\ InOpeningWindow(AberturaOf(output[j]))
              /\ AberturaOf(output[j]) = SynthOpen(decisions[i].filial, decisions[i].day)
              /\ events[k].operador # <<>>
                   => output[j].OPERADOR_ABERTURA = events[k].operador

\* the types of the events classified at instant t
TypesAt(t) == {events[k].type : k \in {e \in DOMAIN events : events[e].timestamp = t}}

\* the description, whatever its case, contains sub
Mentions(row, sub) == Includes(ToUpperCase(row.descricao), sub)

\* C17 as stated (classification): a record with a timestamp is classified
\* Disarm when its event code is 1401 or its description contains DESARM, Arm
\* when its event code is 3401 or its description contains ARM but not
\* DESARM, and is otherwise discarded; it has one type.
C17_Classification ==
  pc # "classify" =>
    \A i \in DOMAIN rawData :
      parseTimestamp(rawData[i].data) # Null =>
        LET r == rawData[i]
            types == TypesAt(parseTimestamp(rawData[i].data))
            disarm == r.codigo = 1401 \/ Mentions(r, S_DESARM)
            arm == r.codigo = 3401 \/ (Mentions(r, S_ARM) /\ ~Mentions(r, S_DESARM))
        IN  /\ disarm => "DESARME" \in types
            /\ arm => "ARME" \in types
            /\ ~disarm /\ ~arm => types = {}
            /\ Cardinality(types) <= 1

\* C17 as amended (classification): the event code decides first. A record
\* with a timestamp is classified Disarm when its event code is 1401, or its
\* event code is not 3401 and its description contains DESARM; Arm when its
\* event code is 3401, or its event code is not 1401 and its description
\* contains ARM but not DESARM; and is otherwise discarded.
C17_ClassificationCodeFirst ==
  pc # "classify" =>
    \A i \in DOMAIN rawData :
      parseTimestamp(rawData[i].data) # Null =>
        LET r == rawData[i]
            types == TypesAt(parseTimestamp(rawData[i].data))
            disarm == r.codigo = 1401 \/ (r.codigo # 3401 /\ Mentions(r, S_DESARM))
            arm == \/ r.codigo = 3401
                   \/ r.codigo # 1401 /\ Mentions(r, S_ARM) /\ ~Mentions(r, S_DESARM)
        IN  types = IF disarm THEN {"DESARME"} ELSE IF arm THEN {"ARME"} ELSE {}

\* classified input with a record typed by its code against its description,
\* one typed by its description alone and one discarded
C17_Witness ==
  /\ pc # "classify"
  /\ \E i \in DOMAIN rawData :
       /\ rawData[i].codigo = 3401 /\ Mentions(rawData[i], S_DESARM)
       /\ TypesAt(parseTimestamp(rawData[i].data)) = {"ARME"}
  /\ \E i \in DOMAIN rawData :
       /\ rawData[i].codigo \notin {1401, 3401}
       /\ TypesAt(parseTimestamp(rawData[i].data)) # {}
  /\ \E i \in DOMAIN rawData :
       /\ parseTimestamp(rawData[i].data) # Null
       /\ TypesAt(parseTimestamp(rawData[i].data)) = {}

\* the record has no usable timestamp, or neither its event code nor its
\* description gives it a type
Discarded(row) ==
  \/ row.data.tag \notin {"Date", "Text"}
  \/ /\ row.codigo \notin {1401, 3401}
     /\ ~Mentions(row, S_DESARM)
     /\ ~Mentions(row, S_ARM)

\* the input without its discarded records
Cleaned(rows) == SelectSeq(rows, LAMBDA r : ~Discarded(r))

\* C18 (silent degradation): the returned report is the report of the input
\* without the records that have no usable timestamp or no type.
C18_Degradation ==
  pc = "done" => output = processDeterministic(Cleaned(rawData), uf)

\* a returned report, not empty, for an input with a record without a
\* timestamp and a record without a type dated after every other record
C18_Witness ==
  /\ pc = "done"
  /\ output # <<>>
  /\ \E i \in DOMAIN rawData : rawData[i].data.tag \notin {"Date", "Text"}
  /\ \E i \in DOMAIN rawData :
       /\ rawData[i].data.tag = "Date" /\ Discarded(rawData[i])
       /\ \A k \in DOMAIN events :
            DayOf(events[k].timestamp) < DayOf(parseTimestamp(rawData[i].data))

\* the opening and closing instants of the rows of a sequence
InstantsOf(rows) ==
  UNION {{AberturaOf(rows[i]), FechamentoOf(rows[i])} : i \in DOMAIN rows}

\* C19 (frame of ensureUniqueTimestamps): the pass returns the rows it was
\* given, as many and in the same order, with branch, UF and both operators
\* unchanged; only the opening and the closing of a row may differ, and a row
\* whose opening and closing are not among the instants of the rows mapped
\* before it is returned unchanged.
C19_UniqueFrame ==
  /\ Len(finalRows) <= Len(processedRows)
  /\ pc = "done" => Len(finalRows) = Len(processedRows)
  /\ \A i \in DOMAIN finalRows :
       /\ [finalRows[i] EXCEPT !.ABERTURA = processedRows[i].ABERTURA,
                               !.FECHAMENTO = processedRows[i].FECHAMENTO]
            = processedRows[i]
       /\ ( /\ AberturaOf(processedRows[i]) \notin InstantsOf(SubSeq(finalRows, 1, i - 1))
            /\ FechamentoOf(processedRows[i]) \notin InstantsOf(SubSeq(finalRows, 1, i - 1)) )
          => finalRows[i] = processedRows[i]

\* a finished pass that moved an instant of one row and returned unchanged a
\* row whose two operators differ
C19_Witness ==
  /\ pc = "done"
  /\ \E i \in DOMAIN finalRows : finalRows[i] # processedRows[i]
  /\ \E i \in DOMAIN finalRows :
       /\ finalRows[i] = processedRows[i]
       /\ finalRows[i].OPERADOR_ABERTURA # finalRows[i].OPERADOR_FECHAMENTO

\* the number of (branch, day) pairs of a sequence of ranges
RECURSIVE RangeDays(_)
RangeDays(ranges) ==
  IF Len(ranges) = 0 THEN 0
  ELSE RangeDays(SubSeq(ranges, 1, Len(ranges) - 1))
         + DayOf(ranges[Len(ranges)].max) - DayOf(ranges[Len(ranges)].min) + 1

\* C20 (phase ordering): a row is resolved only while the uniqueness pass has
\* not begun, each for the branch in turn; the pass maps a row only when
\* every day of every branch has its row, proceeds one row at a time in the
\* order the rows were resolved, and checks every row against one set, which
\* holds the instants of all rows mapped so far, whatever their branch; the
\* report is returned only when the pass has mapped every row.
C20_PhaseOrder ==
  [][ /\ processedRows' # processedRows
           => /\ pc = "resolve"
              /\ finalRows = <<>> /\ finalRows' = <<>> /\ seen' = {}
              /\ processedRows' = Append(processedRows, processedRows'[Len(processedRows')])
              /\ processedRows'[Len(processedRows')].FILIAL = sortedFilials[fi].filial
              /\ fi' >= fi
      /\ finalRows' # finalRows
           => /\ pc = "unique"
              /\ processedRows' = processedRows
              /\ Len(processedRows) = RangeDays(sortedFilials)
              /\ Len(finalRows') = Len(finalRows) + 1
              /\ Len(finalRows') <= Len(processedRows)
              /\ SubSeq(finalRows', 1, Len(finalRows)) = finalRows
              /\ finalRows'[Len(finalRows')].FILIAL = processedRows[Len(finalRows')].FILIAL
              /\ AberturaOf(finalRows'[Len(finalRows')]) \notin seen
              /\ FechamentoOf(finalRows'[Len(finalRows')]) \notin seen
      /\ seen' = InstantsOf(finalRows')
      /\ output' # output
           => /\ Len(finalRows) = Len(processedRows)
              /\ finalRows' = finalRows /\ processedRows' = processedRows
    ]_vars

\* a finished pass over the rows of two branches in which a row was moved off
\* an instant held by a row of the other branch
C20_Witness ==
  /\ pc = "done"
  /\ \E i, j \in DOMAIN finalRows :
       /\ i < j
       /\ finalRows[i].FILIAL # finalRows[j].FILIAL
       /\ processedRows[j].ABERTURA = finalRows[i].ABERTURA
       /\ finalRows[j].ABERTURA # processedRows[j].ABERTURA

\* the records of the input whose account names the branch
OwnRecords(filial) ==
  SelectSeq(rawData, LAMBDA row : extractFilial(row.conta) = filial)

\* the rows steps 1 to 3 produce for an input
ResolvedAlone(rows, ufCode) ==
  RowsIn(ResolveFilials(ClassifyRows(rows), SortedFilials(ClassifyRows(rows)), ufCode))

\* C21 (branch isolation): each branch starts its first day with an empty
\* operator memory and an empty set of used ARMEs, and the rows resolved for
\* a branch, before the uniqueness pass, are the rows resolved for the input
\* reduced to the records of that branch: records of other branches, present,
\* absent or different, change nothing in them.
C21_BranchIsolation ==
  /\ (pc = "resolve" /\ currentDate = DayOf(sortedFilials[fi].min))
       => /\ prevAberturaOperador = <<>>
          /\ prevFechamentoOperador = <<>>
          /\ usedArmes = {}
  /\ pc \in {"unique", "done"}
       => \A k \in DOMAIN sortedFilials :
            SelectSeq(processedRows, LAMBDA r : r.FILIAL = sortedFilials[k].filial)
              = ResolvedAlone(OwnRecords(sortedFilials[k].filial), uf)

\* two branches resolved one after the other: the first ends with a closing
\* operator in its memory, the second has no ARME on its first day and takes
\* its closing operator, a different one, from its own DESARME
C21_Witness ==
  /\ pc = "done"
  /\ \E i \in DOMAIN processedRows :
       /\ i + 1 \in DOMAIN processedRows
       /\ processedRows[i].FILIAL # processedRows[i + 1].FILIAL
       /\ processedRows[i].OPERADOR_FECHAMENTO # <<>>
       /\ decisions[i + 1].arme = 0
       /\ decisions[i + 1].desarme # 0
       /\ processedRows[i + 1].OPERADOR_FECHAMENTO # <<>>
       /\ processedRows[i + 1].OPERADOR_FECHAMENTO # processedRows[i].OPERADOR_FECHAMENTO

\* the description of the record says, in any letter case, ARME REMOTO or
\* ARMADO REMOTO
MentionsRemote(row) ==
  \/ Includes(ToUpperCase(row.descricao), <<"A","R","M","E"," ","R","E","M","O","T","O">>)
  \/ Includes(ToUpperCase(row.descricao), <<"A","R","M","A","D","O"," ","R","E","M","O","T","O">>)

\* the records of the input received at the instant of an event
RecordsAt(t) == {i \in DOMAIN rawData : parseTimestamp(rawData[i].data) = t}

DisarmsOn(i) ==
  {k \in DOMAIN events : /\ events[k].filial = decisions[i].filial
                         /\ events[k].type = "DESARME"
                         /\ DayOf(events[k].timestamp) = decisions[i].day}

\* t is the instant of the earliest DESARME of the branch and the day of row
\* i, and lies within 05:30:00..08:30:00
EarliestDisarmInWindow(i, t) ==
  /\ \E k \in DisarmsOn(i) : events[k].timestamp = t
  /\ \A k \in DisarmsOn(i) : events[k].timestamp >= t
  /\ InOpeningWindow(t)

\* u is the first instant from t on that is not in Taken
FirstFreeFrom(t, Taken, u) ==
  /\ u >= t
  /\ u \notin Taken
  /\ \A v \in t..(u - 1) : v \in Taken

\* C23 as stated (originals preserved end to end): in the returned report the
\* opening of a day whose earliest DESARME lies in the opening window is the
\* instant of that DESARME, and the closing of a day whose ARME candidate was
\* accepted is the instant of that ARME.
C23_OriginalsPreserved ==
  pc = "done" =>
    \A i \in DOMAIN decisions :
      /\ \E j \in DOMAIN output : output[j] = finalRows[i]
      /\ \A t \in {events[k].timestamp : k \in DisarmsOn(i)} :
           EarliestDisarmInWindow(i, t) => AberturaOf(finalRows[i]) = t
      /\ decisions[i].fechamentoKept
           => FechamentoOf(finalRows[i]) = events[decisions[i].arme].timestamp

\* C23 amended (originals preserved unless the instant is taken): the row as
\* resolved opens at the instant of the earliest DESARME in the window and
\* closes at the instant of the accepted ARME; in the returned report the
\* opening is the first instant from there on that no earlier row of the pass
\* holds, so the original itself when no earlier row holds it, and the closing
\* is the first instant from the original on that neither an earlier row nor
\* the row's own opening holds.
C23_OriginalsPreservedUnlessTaken ==
  pc = "done" =>
    \A i \in DOMAIN decisions :
      /\ \E j \in DOMAIN output : output[j] = finalRows[i]
      /\ \A t \in {events[k].timestamp : k \in DisarmsOn(i)} :
           EarliestDisarmInWindow(i, t)
             => /\ AberturaOf(processedRows[i]) = t
                /\ FirstFreeFrom(t, InstantsOf(SubSeq(finalRows, 1, i - 1)),
                                 AberturaOf(finalRows[i]))
      /\ decisions[i].fechamentoKept
           => /\ FechamentoOf(processedRows[i]) = events[decisions[i].arme].timestamp
              /\ FirstFreeFrom(events[decisions[i].arme].timestamp,
                               InstantsOf(SubSeq(finalRows, 1, i - 1))
                                 \cup {AberturaOf(finalRows[i])},
                               FechamentoOf(finalRows[i]))

\* a returned report with an original opening and an original closing that
\* are in it unchanged, and an original opening that an earlier row held and
\* that was moved
C23_Witness ==
  /\ pc = "done"
  /\ \E i, j \in DOMAIN decisions :
       /\ decisions[i].aberturaKept /\ decisions[j].aberturaKept
       /\ EarliestDisarmInWindow(i, AberturaOf(processedRows[i]))
       /\ EarliestDisarmInWindow(j, AberturaOf(processedRows[j]))
       /\ finalRows[i].ABERTURA = processedRows[i].ABERTURA
       /\ finalRows[j].ABERTURA # processedRows[j].ABERTURA
  /\ \E i \in DOMAIN decisions :
       /\ decisions[i].fechamentoKept
       /\ FechamentoOf(finalRows[i]) = events[decisions[i].arme].timestamp

\* C24 (adjustment rule of ensureUniqueTimestamps): at every step of the
\* pass, the opening of each mapped row is the first instant, from the
\* resolved opening on, that no row mapped before it holds as its opening or
\* closing, and its closing is the first instant, from the resolved closing
\* on, that neither a row mapped before it nor its own opening holds; so an
\* instant moves forward only, by whole seconds, and only off a taken instant.
\* A row once mapped is never changed by the mapping of a later row.
C24_AdjustmentRule ==
  [][ /\ \A i \in DOMAIN finalRows' :
           /\ FirstFreeFrom(AberturaOf(processedRows'[i]),
                            InstantsOf(SubSeq(finalRows', 1, i - 1)),
                            AberturaOf(finalRows'[i]))
           /\ FirstFreeFrom(FechamentoOf(processedRows'[i]),
                            InstantsOf(SubSeq(finalRows', 1, i - 1))
                              \cup {AberturaOf(finalRows'[i])},
                            FechamentoOf(finalRows'[i]))
      /\ \A i \in DOMAIN finalRows :
           i \in DOMAIN finalRows' /\ finalRows'[i] = finalRows[i]
    ]_vars

\* a finished pass in which the opening of one row was moved by two seconds,
\* past the instants of two rows mapped before it, and these two rows are as
\* they were mapped
C24_Witness ==
  /\ pc = "done"
  /\ \E i \in DOMAIN finalRows :
       /\ AberturaOf(finalRows[i]) = AberturaOf(processedRows[i]) + 2
       /\ \E j, k \in 1..(i - 1) :
            /\ AberturaOf(finalRows[j]) = AberturaOf(processedRows[i])
            /\ AberturaOf(finalRows[k]) = AberturaOf(processedRows[i]) + 1

\* the number of seconds of 22:30:00..23:59:59 and of 00:00:00..01:30:00
ClosingOffsets == (24 * 3600 - timeToSeconds(22, 30, 0)) + (timeToSeconds(1, 30, 0) + 1)

\* the closing generated for day d when the generator's first value is rnd
ClosingFromRnd(rnd, d) ==
  FechamentoAt(TimeFromRnd(rnd, CLOSE_START.hour, CLOSE_START.minute,
                           CLOSE_END.hour, CLOSE_END.minute), d)

\* the least value of the generator whose share of ClosingOffsets is offset,
\* or the value below it: offset * LcgModulus / ClosingOffsets rounded down,
\* computed within 32 bits
RndBelow(offset) ==
  offset * (LcgModulus \div ClosingOffsets)
    + (offset * (LcgModulus % ClosingOffsets)) \div ClosingOffsets

\* C25 (range of synthesized closings): a closing synthesized for day d is
\* an instant of d from 22:30:00 to 23:59:59 or of d + 1 from 00:00:00 to
\* 01:30:00, so a time past midnight is on d + 1 and never in the early
\* hours of d; and every second of both ranges is generated for some value of
\* the generator, every value of the generator being the first value for
\* some seed.  The last two facts do not depend on the records and are
\* stated on the run without records.
C25_SynthesizedClosingRange ==
  /\ \A i \in DOMAIN decisions :
       ~decisions[i].fechamentoKept =>
         \/ /\ MakeDate(decisions[i].day, 22, 30, 0) <= FechamentoOf(processedRows[i])
            /\ FechamentoOf(processedRows[i]) <= MakeDate(decisions[i].day, 23, 59, 59)
         \/ /\ MakeDate(decisions[i].day + 1, 0, 0, 0) <= FechamentoOf(processedRows[i])
            /\ FechamentoOf(processedRows[i]) <= MakeDate(decisions[i].day + 1, 1, 30, 0)
  /\ (Len(rawData) = 0 /\ pc = "done") =>
       /\ \A offset \in 0..(ClosingOffsets - 1) :
            \E rnd \in {RndBelow(offset), RndBelow(offset) + 1} :
              /\ rnd < LcgModulus
              /\ ClosingFromRnd(rnd, 0) = MakeDate(0, 22, 30, 0) + offset
       /\ \A rnd \in 0..(LcgModulus - 1) :
            MakeDate(0, 22, 30, 0) <= ClosingFromRnd(rnd, 0)
              /\ ClosingFromRnd(rnd, 0) <= MakeDate(1, 1, 30, 0)

\* rows resolved with a synthesized closing after midnight, on the next
\* date, and with a synthesized closing before midnight
C25_Witness ==
  /\ \E i \in DOMAIN decisions :
       /\ ~decisions[i].fechamentoKept
       /\ DayOf(FechamentoOf(processedRows[i])) = decisions[i].day + 1
  /\ \E i \in DOMAIN decisions :
       /\ ~decisions[i].fechamentoKept
       /\ DayOf(FechamentoOf(processedRows[i])) = decisions[i].day

\* both operators of the row are empty, or both are not
Paired(row) == Blank(row.OPERADOR_ABERTURA) <=> Blank(row.OPERADOR_FECHAMENTO)

\* C26 (operator pairing): in every row, as resolved, as mapped by the
\* uniqueness pass and as returned, the opening operator and the closing
\* operator are both empty or both non-empty; and after a row of a branch
\* with non-empty operators every later row of the branch has a non-empty
\* opening operator and a non-empty closing operator.
C26_OperatorPairing ==
  /\ \A i \in DOMAIN processedRows : Paired(processedRows[i])
  /\ \A i \in DOMAIN finalRows : Paired(finalRows[i])
  /\ \A i \in DOMAIN output : Paired(output[i])
  /\ \A i, j \in DOMAIN processedRows :
       ( /\ i < j
         /\ processedRows[i].FILIAL = processedRows[j].FILIAL
         /\ ~Blank(processedRows[i].OPERADOR_ABERTURA) )
       => /\ ~Blank(processedRows[j].OPERADOR_ABERTURA)
          /\ ~Blank(processedRows[j].OPERADOR_FECHAMENTO)
  /\ \A i, j \in DOMAIN output :
       ( /\ output[i].FILIAL = output[j].FILIAL
         /\ AberturaOf(output[i]) < AberturaOf(output[j])
         /\ ~Blank(output[i].OPERADOR_ABERTURA) )
       => /\ ~Blank(output[j].OPERADOR_ABERTURA)
          /\ ~Blank(output[j].OPERADOR_FECHAMENTO)

\* a returned report of a branch with a row without operators, then a row
\* whose only operator was named by one event of its day, then a row of a
\* day without a DESARME
C26_Witness ==
  /\ pc = "done"
  /\ \E i, j, k \in DOMAIN processedRows :
       /\ i < j /\ j < k
       /\ Blank(processedRows[i].OPERADOR_ABERTURA)
       /\ Blank(processedRows[i].OPERADOR_FECHAMENTO)
       /\ ~Blank(processedRows[j].OPERADOR_ABERTURA)
       /\ decisions[j].arme = 0 \/ decisions[j].desarme = 0
       /\ decisions[k].desarme = 0
       /\ ~Blank(processedRows[k].OPERADOR_ABERTURA)
       /\ \E n \in DOMAIN output : output[n] = finalRows[k]

\* C27 (temporal order of rows): in every row, as resolved, as mapped and as
\* returned, the opening is strictly earlier than the closing; no resolved
\* closing is the second after its opening, which is what the equal-instant
\* guard would have made of an equal pair, so the guard never fires; and
\* within a branch the closing of a day is strictly earlier than the opening
\* of the next day.
C27_TemporalOrder ==
  /\ \A i \in DOMAIN processedRows :
       /\ AberturaOf(processedRows[i]) < FechamentoOf(processedRows[i])
       /\ FechamentoOf(processedRows[i]) # AberturaOf(processedRows[i]) + 1
  /\ \A i \in DOMAIN finalRows : AberturaOf(finalRows[i]) < FechamentoOf(finalRows[i])
  /\ \A i \in DOMAIN output : AberturaOf(output[i]) < FechamentoOf(output[i])
  /\ \A i, j \in DOMAIN processedRows :
       ( /\ decisions[i].filial = decisions[j].filial
         /\ decisions[j].day = decisions[i].day + 1 )
       => /\ FechamentoOf(processedRows[i]) < AberturaOf(processedRows[j])
          /\ j \in DOMAIN finalRows
               => FechamentoOf(finalRows[i]) < AberturaOf(finalRows[j])
  /\ \A i, j \in DOMAIN output :
       (i < j /\ output[i].FILIAL = output[j].FILIAL)
       => FechamentoOf(output[i]) < AberturaOf(output[j])

\* a returned report with two rows of a branch on consecutive days, the
\* first closing after midnight, on the date of the second
C27_Witness ==
  /\ pc = "done"
  /\ \E i, j \in DOMAIN output :
       /\ i < j
       /\ output[i].FILIAL = output[j].FILIAL
       /\ DayOf(FechamentoOf(output[i])) = DayOf(AberturaOf(output[j]))

\* C28 (next-day candidates are always kept): a closing candidate that is an
\* ARME of the day after the row's day was taken from the next-day pool, and
\* the row is resolved with that ARME's timestamp as its closing, never with a
\* synthesized one; a candidate whose time was replaced by a synthesized one
\* is an ARME of the row's own day, taken from the same-day pool.
C28_NextDayCandidateKept ==
  \A i \in DOMAIN decisions :
    decisions[i].arme # 0 =>
      /\ DayOf(events[decisions[i].arme].timestamp) \in {decisions[i].day, decisions[i].day + 1}
      /\ decisions[i].pool = "next"
           <=> DayOf(events[decisions[i].arme].timestamp) = decisions[i].day + 1
      /\ DayOf(events[decisions[i].arme].timestamp) = decisions[i].day + 1
           => /\ decisions[i].fechamentoKept
              /\ FechamentoOf(processedRows[i]) = events[decisions[i].arme].timestamp
      /\ ~decisions[i].fechamentoKept
           => /\ decisions[i].pool = "day"
              /\ DayOf(events[decisions[i].arme].timestamp) = decisions[i].day

\* a branch with a row closed by a kept ARME of the next day in hour 01 and
\* a row whose same-day candidate was replaced
C28_Witness ==
  /\ \E i \in DOMAIN decisions :
       /\ decisions[i].arme # 0
       /\ DayOf(events[decisions[i].arme].timestamp) = decisions[i].day + 1
       /\ HourOf(events[decisions[i].arme].timestamp) = 1
       /\ FechamentoOf(processedRows[i]) = events[decisions[i].arme].timestamp
  /\ \E i \in DOMAIN decisions :
       decisions[i].arme # 0 /\ ~decisions[i].fechamentoKept

\* the inputs that hold the records of rows with two neighbours exchanged;
\* every order of the records is reached by such exchanges, and each of them
\* is an input again
Reorderings(rows) ==
  {[i \in DOMAIN rows |-> IF i = k THEN rows[k + 1]
                          ELSE IF i = k + 1 THEN rows[k] ELSE rows[i]] :
     k \in 1..(Len(rows) - 1)}

\* no two events of one branch carry the same timestamp, and no two branches
\* compare as equal in the order of the branches
NoTies ==
  /\ \A i, j \in DOMAIN events :
       (i # j /\ events[i].filial = events[j].filial)
       => events[i].timestamp # events[j].timestamp
  /\ \A i, j \in DOMAIN sortedFilials :
       i # j => CompareFilial(sortedFilials[i].filial, sortedFilials[j].filial) # 0

C30_BranchContiguity ==
  pc = "done" =>
    \A i, j, k \in DOMAIN output :
      (i < j /\ j < k /\ output[i].FILIAL = output[k].FILIAL)
      => output[j].FILIAL = output[i].FILIAL

====
